---- MODULE Spec2Model ----
(***************************************************************************)
(* Model of the acquisition scheduler of electricitypricelevels            *)
(* (sensor/nordpool_coordinator.py: NordpoolDataCoordinator).              *)
(*                                                                         *)
(* Durations and times of day are integers in tenths of a second, so the   *)
(* 0.1 s delay of the source is 1 and 13:00 is 468000.  A local date is a  *)
(* day number.  Python's None is the empty tuple and a present value x is  *)
(* the one-element tuple <<x>>, so that None, an empty list and a          *)
(* non-empty list stay three different values, as they are for the         *)
(* truthiness tests of the source.                                         *)
(*                                                                         *)
(* A tick (_trigger_and_reschedule_nordpool) is a coroutine.  It is cut at  *)
(* the await of the provider call (hass.services.async_call), where the    *)
(* event loop runs other callbacks; the code before and the code after it  *)
(* are each one atomic step of the event loop.  The consumer callback is   *)
(* awaited too, but the consumer of this repository                        *)
(* (ElectricityPriceLevelSensor.async_update_data) has no await of its     *)
(* own, so it runs to its end, or to the exception it raises, inside the   *)
(* step that calls it.                                                     *)
(*                                                                         *)
(* The delay of a wake-up runs on the event loop's monotonic clock, the    *)
(* local time a tick reads (datetime.now in the configured time zone) is   *)
(* the wall clock.  The model keeps the delay a wake-up was armed with but *)
(* does not tie its firing to the local time: a wake-up fires at any local *)
(* time not earlier than the last one a tick has read (hass_now).          *)
(***************************************************************************)
EXTENDS Integers, Sequences, FiniteSets, Bags, TLC

\* inflight is the bag of the ticks suspended at their provider call
VARIABLES is_running, currency,
          data_for_current_hass_date, date_of_current_data,
          data_for_next_hass_date, date_of_next_data,
          task_remover, pending, inflight, hass_now, last

\* the tariff engine (ElectricityPriceLevelSensor): its thresholds and fees,
\* its visible state (level, cost, credit, spot_price, rank, state), its rate
\* records, its unit and currency, the local clock its lookups read
\* (now_local) and the observation of its last operation (seen)
VARIABLES low_threshold, high_threshold, fees,
          level, cost, credit, spot_price, rank, state, rates,
          unit, sensor_currency, unit_of_measurement, now_local, seen

sensorVars == <<low_threshold, high_threshold, fees, level, cost, credit,
                spot_price, rank, state, rates, unit, sensor_currency,
                unit_of_measurement, now_local, seen>>

coordinatorVars == <<is_running, currency, data_for_current_hass_date,
                     date_of_current_data, data_for_next_hass_date,
                     date_of_next_data, task_remover, pending, inflight,
                     hass_now, last>>

cacheVars == <<data_for_current_hass_date, date_of_current_data,
               data_for_next_hass_date, date_of_next_data>>

\* the displays fed by the engine: the pattern of the clock (TimeSensor), with
\* the rate list it was last made from, and the compact value
\* (CompactLevelsSensor), with the result of calculate_levels it was last
\* made from
VARIABLES pattern_rates, level_clock_pattern,
          calculated_levels, service_seconds, service_compact

\* the start of CompactLevelsSensor: whether it still waits for the first
\* value of the engine, the periodic update tasks it has created, and of the
\* host the state of the entity of the engine, the listeners registered for
\* its changes and the calls of the listeners that have not run yet
VARIABLES waiting_for_first_value, tasks_created,
          price_state, listeners, handler_calls

lifecycleVars == <<waiting_for_first_value, tasks_created, price_state,
                   listeners, handler_calls>>

displayVars == <<pattern_rates, level_clock_pattern, calculated_levels,
                 service_seconds, service_compact, lifecycleVars>>

vars == <<coordinatorVars, sensorVars, displayVars>>

----------------------------------------------------------------------------
(* Bounds of the model *)

\* local dates a tick can observe are 0..MaxDay
MaxDay == 1

\* tick bodies that may be suspended at an await at the same time
MaxInFlight == 2

\* timer handles the host can hand out
MaxHandles == 3

\* a tick may run this many tenths of a second before 13:00
NearCutoff == 5

----------------------------------------------------------------------------
(* Program constants, in tenths of a second *)

DayLength == 864000

Cutoff13h00 == 468000

RetryTodayDelay == 150

RetryTomorrowDelay == 1200

ImmediateDelay == 1

InitialDelay == 1

MinSmallDelay == 10

UnhandledStatusDelay == 3000

----------------------------------------------------------------------------
(* Values *)

None == << >>

Some(x) == <<x>>

\* Python truthiness of an optional list: neither None nor empty
Truthy(opt) == opt # None /\ opt[1] # << >>

Days == 0..MaxDay

\* the times of day the local clock is observed at
Tods == {Cutoff13h00 - NearCutoff, Cutoff13h00}

Currencies == {"EUR", "SEK"}

Max(a, b) == IF a >= b THEN a ELSE b

----------------------------------------------------------------------------
(* The external provider and _execute_nordpool_call_logic *)

\* what the currency entity of the area can show
CurrencyStates == {"absent", "unknown", "unavailable", ""} \cup Currencies

\* the curves the provider can return for a date: an empty list or one entry
Curves(d) == {<< >>, <<d>>}

\* every way hass.services.async_call can end for fetch date d
Responses(d) ==
    [kind : {"area_list"}, raw : Curves(d), cur : CurrencyStates]
    \cup [kind : {"area_not_list", "multi_area", "empty", "raise_not_loaded",
                  "raise_validation", "raise_other"},
          raw : {<< >>}, cur : {"absent"}]

\* lines 63-72: the currency read from the area's currency entity
DeterminedCurrency(cur) ==
    IF cur \in {"absent", "unknown", "unavailable"} THEN None ELSE Some(cur)

ExecuteNordpoolCallLogic_ValidationIsNotReady(resp) ==
    CASE resp.kind = "area_list" ->
            [status |-> "SUCCESS_DATA",
             payload |-> Some([currency |-> DeterminedCurrency(resp.cur),
                               raw |-> resp.raw])]
      [] resp.kind \in {"area_not_list", "multi_area"} ->
            [status |-> "ERROR_BAD_RESPONSE_STRUCTURE", payload |-> None]
      [] resp.kind = "empty" ->
            [status |-> "SUCCESS_NO_DATA", payload |-> None]
      [] resp.kind \in {"raise_not_loaded", "raise_validation"} ->
            [status |-> "ERROR_SERVICE_NOT_READY", payload |-> None]
      [] OTHER ->
            [status |-> "ERROR_OTHER", payload |-> None]

\* the (status, payload) pair returned for a provider response
ExecuteNordpoolCallLogic(resp) ==
    CASE resp.kind = "area_list" ->
            [status |-> "SUCCESS_DATA",
             payload |-> Some([currency |-> DeterminedCurrency(resp.cur),
                               raw |-> resp.raw])]
      [] resp.kind \in {"area_not_list", "multi_area"} ->
            [status |-> "ERROR_BAD_RESPONSE_STRUCTURE", payload |-> None]
      [] resp.kind = "empty" ->
            [status |-> "SUCCESS_NO_DATA", payload |-> None]
      [] resp.kind = "raise_not_loaded" ->
            [status |-> "ERROR_SERVICE_NOT_READY", payload |-> None]
      [] OTHER ->
            [status |-> "ERROR_OTHER", payload |-> None]

----------------------------------------------------------------------------
(* The pieces of one scheduling cycle.  A cache is handled as the record   *)
(* [dcur, tcur, dnext, tnext] of the four cache attributes.                *)

Cache == [dcur |-> data_for_current_hass_date, tcur |-> date_of_current_data,
          dnext |-> data_for_next_hass_date, tnext |-> date_of_next_data]

Rollover_ForgetsNext(c, today) ==
    IF c.tcur # None /\ c.tcur[1] < today
    THEN [dcur |-> None, tcur |-> None, dnext |-> None, tnext |-> None]
    ELSE c

\* 1. midnight rollover
Rollover(c, today) ==
    IF c.tcur # None /\ c.tcur[1] < today
    THEN [dcur |-> c.dnext, tcur |-> c.tnext, dnext |-> None, tnext |-> None]
    ELSE c

NeedsRollover(c, today) == c.tcur # None /\ c.tcur[1] < today

OperationType_IgnoresEmptyData(c, today) ==
    IF c.tcur # Some(today)
    THEN "TODAY"
    ELSE IF ~Truthy(c.dnext) \/ c.tnext # Some(today + 1)
         THEN "TOMORROW"
         ELSE "IDLE"

\* 2. what to fetch
OperationType(c, today) ==
    IF ~Truthy(c.dcur) \/ c.tcur # Some(today)
    THEN "TODAY"
    ELSE IF c.tcur = Some(today)
            /\ (~Truthy(c.dnext) \/ c.tnext # Some(today + 1))
         THEN "TOMORROW"
         ELSE "IDLE"

TargetFetchDate_AlwaysToday(op, today) == today

TargetFetchDate(op, today) == IF op = "TODAY" THEN today ELSE today + 1

StoreFetched_ClearsOnError(c, op, target, res) ==
    IF res.status = "SUCCESS_DATA" /\ res.payload # None
    THEN IF op = "TODAY"
         THEN [c EXCEPT !.dcur = Some(res.payload[1].raw), !.tcur = Some(target)]
         ELSE [c EXCEPT !.dnext = Some(res.payload[1].raw), !.tnext = Some(target)]
    ELSE IF op = "TODAY"
         THEN [c EXCEPT !.dcur = None, !.tcur = None]
         ELSE [c EXCEPT !.dnext = None, !.tnext = None]

\* lines 191-208: the cache after the provider call returned
StoreFetched(c, op, target, res) ==
    IF res.status = "SUCCESS_DATA" /\ res.payload # None
    THEN IF op = "TODAY"
         THEN [c EXCEPT !.dcur = Some(res.payload[1].raw), !.tcur = Some(target)]
         ELSE IF op = "TOMORROW"
              THEN [c EXCEPT !.dnext = Some(res.payload[1].raw),
                             !.tnext = Some(target)]
              ELSE c
    ELSE c

StoreCurrency_ErasesUnknown(cur, res) ==
    IF res.status = "SUCCESS_DATA" /\ res.payload # None
    THEN res.payload[1].currency
    ELSE cur

\* lines 194-201: the currency after the provider call returned
StoreCurrency(cur, res) ==
    IF res.status = "SUCCESS_DATA" /\ res.payload # None
       /\ res.payload[1].currency # None /\ res.payload[1].currency # Some("")
    THEN res.payload[1].currency
    ELSE cur

CombinedRawData_IgnoresDates(c, today) ==
    (IF Truthy(c.dcur) THEN c.dcur[1] ELSE << >>)
    \o (IF Truthy(c.dnext) THEN c.dnext[1] ELSE << >>)

\* 3. the merged curve of the entries valid for today and today+1
CombinedRawData(c, today) ==
    (IF Truthy(c.dcur) /\ c.tcur = Some(today) THEN c.dcur[1] ELSE << >>)
    \o (IF Truthy(c.dnext) /\ c.tnext = Some(today + 1) THEN c.dnext[1] ELSE << >>)

TodaysDataIsNowOk(c, today) == Truthy(c.dcur) /\ c.tcur = Some(today)

TomorrowsDataIsNowOk_DateOnly(c, today) == c.tnext = Some(today + 1)

TomorrowsDataIsNowOk(c, today) == Truthy(c.dnext) /\ c.tnext = Some(today + 1)

HandledStatuses ==
    {"SUCCESS_DATA", "SUCCESS_NO_DATA", "ERROR_OTHER", "ERROR_SERVICE_NOT_READY",
     "ERROR_MISSING_CURRENCY", "ERROR_BAD_RESPONSE_STRUCTURE", "NOT_ATTEMPTED"}

NextDelaySeconds_SlowRetryToday(c, today, tod, op, status) ==
    IF ~TodaysDataIsNowOk(c, today)
    THEN RetryTomorrowDelay
    ELSE IF ~TomorrowsDataIsNowOk(c, today)
         THEN IF tod >= Cutoff13h00 THEN RetryTomorrowDelay
              ELSE Max(1, Cutoff13h00 - tod)
         ELSE Max(1, (DayLength + Cutoff13h00) - tod)

\* 4. the delay computed from the cache after the cycle and the local time
NextDelaySeconds(c, today, tod, op, status) ==
    LET d == IF ~TodaysDataIsNowOk(c, today)
             THEN RetryTodayDelay
             ELSE IF ~TomorrowsDataIsNowOk(c, today)
                  THEN IF op = "TODAY" /\ status = "SUCCESS_DATA"
                          /\ tod >= Cutoff13h00
                       THEN ImmediateDelay
                       ELSE IF tod >= Cutoff13h00
                            THEN RetryTomorrowDelay
                            ELSE Max(1, Cutoff13h00 - tod)
                  ELSE Max(1, (DayLength + Cutoff13h00) - tod)
    IN  IF op # "IDLE" /\ status \notin HandledStatuses
        THEN UnhandledStatusDelay
        ELSE d

AdjustedDelay_WholeSeconds(d) == (d \div MinSmallDelay) * MinSmallDelay

\* lines 271-276: the delay that is actually armed
AdjustedDelay(d) ==
    IF d <= 0 THEN 1
    ELSE IF d < MinSmallDelay /\ d # 1 THEN MinSmallDelay ELSE d

----------------------------------------------------------------------------
(* The host's timers (async_call_later and the remover it returns) *)

PendingIds(p) == {w.id : w \in p}

\* calling a remover: the wake-up is dropped if it has not fired yet
Cancel(p, h) == {w \in p : w.id # h}

CancelRemover_Forgets(p, r) == p

\* lines 260-263, 301-306, 316-320: call the remover if there is one
CancelRemover(p, r) == IF r # None THEN Cancel(p, r[1]) ELSE p

FreeHandles(p) == {h \in 1..MaxHandles : h \notin PendingIds(p)}

FreshHandle(p) == CHOOSE h \in FreeHandles(p) : \A g \in FreeHandles(p) : h <= g

AsyncCallLater(p, h, delay) == p \cup {[id |-> h, delay |-> delay]}

----------------------------------------------------------------------------
(* The tariff engine: sensor/electricity_price_level_sensor.py              *)
(*                                                                         *)
(* Money per kWh is an integer number of 0.00001 currency units, the       *)
(* precision the engine rounds to.  A raw price is a whole number of       *)
(* currency units per MWh.  Variable fees and credits are in tenths of a   *)
(* percent and VAT is in whole percent.  The engine computes in binary     *)
(* floating point: a cost that lies exactly half-way between two multiples *)
(* of 0.00001 is rounded up or down depending on the representation error, *)
(* which the model leaves open (ups: the spot prices whose tie is rounded  *)
(* up); every other value is rounded to the nearest multiple.              *)
(*                                                                         *)
(* A datetime is the record [min, us]: minutes on the local time axis and  *)
(* microseconds within the minute.  astimezone keeps the instant, so only  *)
(* the local date of a datetime depends on the zone, taken without a       *)
(* change of offset in the period modelled.                                *)

MinutesPerDay == 1440

MicrosPerMinute == 60000000

Dt(m, u) == [min |-> m, us |-> u]

DtLess(a, b) == a.min < b.min \/ (a.min = b.min /\ a.us < b.us)

DtLeq(a, b) == a = b \/ DtLess(a, b)

\* datetime.date()
DateOf(dt) == dt.min \div MinutesPerDay

\* line 358: end_local - timedelta(microseconds=1)
MinusOneMicrosecond(dt) ==
    IF dt.us > 0 THEN Dt(dt.min, dt.us - 1) ELSE Dt(dt.min - 1, MicrosPerMinute - 1)

\* line 363: price_mwh / 1000.0, in 0.00001 per kWh
PriceKwh(price_mwh) == price_mwh * 100

\* round(x, 5) of x = n/d (d > 0) given in 0.00001 units
IsTie(n, d) == 2 * (n % d) = d

Round5(n, d, up) ==
    IF 2 * (n % d) < d \/ (IsTie(n, d) /\ ~up) THEN n \div d ELSE (n \div d) + 1

\* lines 497-503: the cost before rounding, as a fraction of CostDenominator
CostDenominator == 100000

CostNumerator(spot, f) ==
    (spot * (1000 + f.supplier_variable_fee + f.grid_variable_fee)
     + 1000 * (f.supplier_fixed_fee + f.grid_fixed_fee + f.grid_energy_tax))
    * (100 + f.electricity_vat)

\* lines 505-509: the credit before rounding, as a fraction of CreditDenominator
CreditDenominator == 1000

CreditNumerator(spot, f) ==
    spot * (1000 + f.supplier_variable_credit + f.grid_variable_credit)
    + 1000 * (f.supplier_fixed_credit + f.grid_fixed_credit)

CalculateCostAndCredit_CreditWithVat(spot, f, ups) ==
    [cost |-> Round5(CostNumerator(spot, f), CostDenominator, spot \in ups),
     credit |-> Round5(CreditNumerator(spot, f) * (100 + f.electricity_vat),
                       CostDenominator, spot \in ups)]

\* calculate_cost_and_credit
CalculateCostAndCredit(spot, f, ups) ==
    [cost |-> Round5(CostNumerator(spot, f), CostDenominator, spot \in ups),
     credit |-> Round5(CreditNumerator(spot, f), CreditDenominator, spot \in ups)]

\* the spot prices for which the rounding of cost or credit is a tie
TieSpots(spots, f) ==
    {sp \in spots : \/ IsTie(CostNumerator(sp, f), CostDenominator)
                    \/ IsTie(CreditNumerator(sp, f), CreditDenominator)}

CalculateLevel_InclusiveThresholds(c, low, high) ==
    IF c <= low THEN "Low" ELSE IF c >= high THEN "High" ELSE "Medium"

\* calculate_level
CalculateLevel(c, low, high) ==
    IF c < low THEN "Low" ELSE IF c > high THEN "High" ELSE "Medium"

\* the pairs <<n, i>>, n <= 129, for which the double-precision product
\* (i / (n - 1)) * 99 of line 452 falls just below the integer 99i/(n-1) it
\* equals in exact arithmetic, so that math.floor gives one less; for every
\* other pair with n <= 129 the floor is that of the exact quotient
FloatBelow ==
    {<<12, 3>>, <<12, 6>>, <<23, 6>>, <<23, 12>>, <<34, 9>>, <<34, 18>>,
     <<45, 12>>, <<45, 24>>, <<56, 15>>, <<56, 30>>, <<67, 18>>, <<67, 36>>,
     <<78, 21>>, <<78, 42>>, <<89, 24>>, <<89, 48>>, <<100, 27>>, <<100, 54>>,
     <<100, 59>>, <<111, 30>>, <<111, 60>>, <<122, 33>>, <<122, 66>>}

\* math.floor((i / (n - 1)) * 99) for the 0-based index i among n > 1 entries
FloorOfScaledIndex(i, n) ==
    ((99 * i) \div (n - 1)) - (IF <<n, i>> \in FloatBelow THEN 1 ELSE 0)

\* a raw entry is [shape, start, end, price]: shape "ok" is a well-formed
\* entry, "price_none" one whose price is null, "bad_time" one with an
\* unparsable timestamp and "no_price" one without the price field
RaisingShapes == {"bad_time", "no_price"}

\* lines 354-370: the entries kept for ranking, in input order
ProcessedForRanking(raw) ==
    LET WellFormed(e) == e.shape = "ok"
        kept == SelectSeq(raw, WellFormed)
    IN  [i \in 1..Len(kept) |->
            [start |-> kept[i].start, end |-> MinusOneMicrosecond(kept[i].end),
             value |-> PriceKwh(kept[i].price)]]

\* lines 354-360: whether the transformation of the batch raises
BatchRaises(raw) == \E i \in 1..Len(raw) : raw[i].shape \in RaisingShapes

\* sorted(day_entries, key=value): stable, so an entry goes after the
\* entries of a smaller value and after those of the same value that precede
\* it in seq
SortedByValue(seq) ==
    LET n == Len(seq)
        place == [i \in 1..n |->
                    1 + Cardinality({j \in 1..n :
                            \/ seq[j].value < seq[i].value
                            \/ seq[j].value = seq[i].value /\ j < i})]
    IN  IF n = 0 THEN << >>
        ELSE [k \in 1..n |-> seq[CHOOSE i \in 1..n : place[i] = k]]

\* self._rates.sort(key=start): stable
SortedByStart(seq) ==
    LET n == Len(seq)
        place == [i \in 1..n |->
                    1 + Cardinality({j \in 1..n :
                            \/ DtLess(seq[j].start, seq[i].start)
                            \/ seq[j].start = seq[i].start /\ j < i})]
    IN  IF n = 0 THEN << >>
        ELSE [k \in 1..n |-> seq[CHOOSE i \in 1..n : place[i] = k]]

\* lines 440-458: the rank of an entry among the entries of its day sorted by
\* value; None stands for "N/A"
RankValue(e, ranked) ==
    LET n == Len(ranked)
        matches == {i \in 1..n : ranked[i].start = e.start /\ ranked[i].value = e.value}
        idx == (CHOOSE i \in matches : \A j \in matches : i <= j) - 1
    IN  IF n = 0 \/ matches = {} THEN None
        ELSE IF n = 1 THEN Some(1)
        ELSE Some(FloorOfScaledIndex(idx, n) + 1)

\* _process_entry: the rate record of an entry
RateRecord(e, ranked, f, low, high, ups) ==
    LET cc == CalculateCostAndCredit(e.value, f, ups)
    IN  [start |-> e.start, end |-> e.end, spot_price |-> e.value,
         cost |-> cc.cost, credit |-> cc.credit,
         level |-> CalculateLevel(cc.cost, low, high),
         rank |-> RankValue(e, ranked)]

\* lines 372-377: the local days of the entries, in order of first appearance
RECURSIVE DaysInOrder(_)
DaysInOrder(entries) ==
    IF entries = << >> THEN << >>
    ELSE LET d == DateOf(Head(entries).start)
             OtherDay(e) == DateOf(e.start) # d
         IN  <<d>> \o DaysInOrder(SelectSeq(Tail(entries), OtherDay))

\* lines 379-382: the records appended to self._rates, day by day and within
\* a day in input order
RECURSIVE ProcessDays(_, _, _, _, _, _)
ProcessDays(days, entries, f, low, high, ups) ==
    IF days = << >> THEN << >>
    ELSE LET OfDay(e) == DateOf(e.start) = Head(days)
             day_entries == SelectSeq(entries, OfDay)
             ranked == SortedByValue(day_entries)
         IN  [i \in 1..Len(day_entries) |->
                 RateRecord(day_entries[i], ranked, f, low, high, ups)]
             \o ProcessDays(Tail(days), entries, f, low, high, ups)

ProcessedRates_RanksWholeBatch(raw, f, low, high, ups) ==
    LET entries == ProcessedForRanking(raw)
        ranked == SortedByValue(entries)
    IN  [i \in 1..Len(entries) |->
            RateRecord(entries[i], ranked, f, low, high, ups)]

\* lines 354-382: the records a well-formed batch appends to self._rates
ProcessedRates(raw, f, low, high, ups) ==
    LET entries == ProcessedForRanking(raw)
    IN  ProcessDays(DaysInOrder(entries), entries, f, low, high, ups)

PurgedRates_KeepsEverything(rs, now) == rs

\* lines 279-281: the records whose start date is not before today
PurgedRates(rs, now) ==
    LET Fresh(r) == DateOf(r.start) >= DateOf(now)
    IN  SelectSeq(rs, Fresh)

IsCurrent(r, now) == DtLeq(r.start, now) /\ DtLess(now, r.end)

\* line 288: the first record whose interval contains now, None if there is none
CurrentRateDetails(rs, now) ==
    LET hits == {i \in 1..Len(rs) : IsCurrent(rs[i], now)}
    IN  IF hits = {} THEN None
        ELSE Some(rs[CHOOSE i \in hits : \A j \in hits : i <= j])

----------------------------------------------------------------------------
(* State *)

\* the observation of the last operation: which one it was ("begin": a tick
\* has called the provider, "end": a tick has run to its end, "raise": a tick
\* has ended with an exception, "skip": a wake-up fired while stopped), the
\* tick it belongs to (its local date, its operation, whether its provider call
\* gave SUCCESS_DATA, whether stop() was called during it, whether it rolled
\* the cache over) and the payload that tick handed to the consumer callback
\* (None: the callback was not called)
Observation(ev, tk, rolled, sent) ==
    [ev |-> ev, day |-> tk.day, op |-> tk.op, ok |-> tk.status = "SUCCESS_DATA",
     stopped |-> tk.stopped, rolled |-> rolled, sent |-> sent]

NoTick == [day |-> 0, tod |-> 0, op |-> "IDLE", status |-> "NOT_ATTEMPTED",
           stopped |-> FALSE]

\* NordpoolDataCoordinator.__init__
CoordinatorConstructed ==
    /\ is_running = FALSE
    /\ currency = None
    /\ data_for_current_hass_date = None
    /\ date_of_current_data = None
    /\ data_for_next_hass_date = None
    /\ date_of_next_data = None
    /\ task_remover = None
    /\ pending = {}
    /\ inflight = EmptyBag
    /\ last = Observation("init", NoTick, FALSE, None)

\* the fees of the reference configuration: fixed fees 0.01 and 0.02,
\* variable fees 1 % and 2 %, fixed credits 0.005 and 0.002, variable
\* credits 0.5 % and 0.2 %, energy tax 0.03, VAT 25 %
ReferenceFees ==
    [supplier_fixed_fee |-> 1000, supplier_variable_fee |-> 10,
     supplier_fixed_credit |-> 500, supplier_variable_credit |-> 5,
     grid_fixed_fee |-> 2000, grid_variable_fee |-> 20,
     grid_fixed_credit |-> 200, grid_variable_credit |-> 2,
     grid_energy_tax |-> 3000, electricity_vat |-> 25]

\* what the last operation of the engine was, how it ended ("ok", "error":
\* the raw curve could not be transformed, "bad_payload": the payload is no
\* dictionary) and the records it appended to self._rates before sorting them
Seen(op, outcome, produced) == [op |-> op, outcome |-> outcome, produced |-> produced]

\* ElectricityPriceLevelSensor.__init__ with thresholds low and high and fees f
SensorConstructed(low, high, f) ==
    /\ low_threshold = low
    /\ high_threshold = high
    /\ fees = f
    /\ level = "Unknown"
    /\ cost = 0
    /\ credit = 0
    /\ spot_price = 0
    /\ rank = Some(0)
    /\ state = 0
    /\ rates = << >>
    /\ unit = None
    /\ sensor_currency = None
    /\ unit_of_measurement = None
    /\ seen = Seen("init", "ok", << >>)

\* TimeSensor.__init__ and CompactLevelsSensor.__init__
DisplayConstructed ==
    /\ pattern_rates = None
    /\ level_clock_pattern = << >>
    /\ calculated_levels = None
    /\ service_seconds = None
    /\ service_compact = None
    /\ waiting_for_first_value = TRUE
    /\ tasks_created = 0
    /\ price_state = "absent"
    /\ listeners = 0
    /\ handler_calls = EmptyBag

\* the objects after construction
Init ==
    /\ CoordinatorConstructed
    /\ DisplayConstructed
    /\ hass_now \in [day : {0}, tod : Tods]
    /\ SensorConstructed(10000, 20000, ReferenceFees)
    /\ now_local = Dt(0, 0)

SetCache(c) ==
    /\ data_for_current_hass_date' = c.dcur
    /\ date_of_current_data' = c.tcur
    /\ data_for_next_hass_date' = c.dnext
    /\ date_of_next_data' = c.tnext

\* the local clock never runs backwards: the times a tick can read
LaterTimes == {n \in [day : Days, tod : Tods] :
                  \/ n.day > hass_now.day
                  \/ n.day = hass_now.day /\ n.tod >= hass_now.tod}

----------------------------------------------------------------------------
(* start() and stop() *)

Start_KeepsCache ==
    IF is_running
    THEN /\ last' = Observation("start", NoTick, FALSE, None)
         /\ UNCHANGED <<is_running, currency, cacheVars, task_remover, pending,
                        inflight, hass_now, sensorVars, displayVars>>
    ELSE LET p == CancelRemover(pending, task_remover)
             h == FreshHandle(p)
         IN  /\ FreeHandles(p) # {}
             /\ is_running' = TRUE
             /\ currency' = None
             /\ pending' = AsyncCallLater(p, h, InitialDelay)
             /\ task_remover' = Some(h)
             /\ last' = Observation("start", NoTick, FALSE, None)
             /\ UNCHANGED <<cacheVars, inflight, hass_now, sensorVars, displayVars>>

\* lines 286-312; a start() while running only logs a warning
Start ==
    IF is_running
    THEN /\ last' = Observation("start", NoTick, FALSE, None)
         /\ UNCHANGED <<is_running, currency, cacheVars, task_remover, pending,
                        inflight, hass_now, sensorVars, displayVars>>
    ELSE LET p == CancelRemover(pending, task_remover)
             h == FreshHandle(p)
         IN  /\ FreeHandles(p) # {}
             /\ is_running' = TRUE
             /\ currency' = None
             /\ SetCache([dcur |-> None, tcur |-> None, dnext |-> None, tnext |-> None])
             /\ pending' = AsyncCallLater(p, h, InitialDelay)
             /\ task_remover' = Some(h)
             /\ last' = Observation("start", NoTick, FALSE, None)
             /\ UNCHANGED <<inflight, hass_now, sensorVars, displayVars>>

\* the in-flight ticks, each marked as having seen a stop()
MarkStopped(b) ==
    LET mark(tk) == [tk EXCEPT !.stopped = TRUE]
        marked == {mark(tk) : tk \in BagToSet(b)}
    IN  [m \in marked |->
            CopiesIn(m, b) + CopiesIn([m EXCEPT !.stopped = FALSE], b)]

Stop_KeepsWakeUp ==
    /\ is_running' = FALSE
    /\ pending' = pending
    /\ task_remover' = None
    /\ inflight' = MarkStopped(inflight)
    /\ last' = Observation("stop", NoTick, FALSE, None)
    /\ UNCHANGED <<currency, cacheVars, hass_now, sensorVars, displayVars>>

\* lines 314-325
Stop ==
    /\ is_running' = FALSE
    /\ pending' = CancelRemover(pending, task_remover)
    /\ task_remover' = None
    /\ inflight' = MarkStopped(inflight)
    /\ last' = Observation("stop", NoTick, FALSE, None)
    /\ UNCHANGED <<currency, cacheVars, hass_now, sensorVars, displayVars>>

----------------------------------------------------------------------------
(* tick(): _trigger_and_reschedule_nordpool, cut at the provider call *)

\* how the awaited consumer callback can end
CallbackOutcomes == {"returns", "raises"}

\* lines 259-284: cancel the previous wake-up and arm the next one; c is the
\* cache after the cycle, tk the tick that ends
Reschedule(p, c, tk, rolled, sent) ==
    LET p1 == CancelRemover(p, task_remover)
        d == AdjustedDelay(NextDelaySeconds(c, tk.day, tk.tod, tk.op, tk.status))
        h == FreshHandle(p1)
    IN  IF is_running
        THEN /\ FreeHandles(p1) # {}
             /\ pending' = AsyncCallLater(p1, h, d)
             /\ task_remover' = Some(h)
             /\ last' = Observation("end", tk, rolled, sent)
        ELSE /\ pending' = p1
             /\ task_remover' = None
             /\ last' = Observation("end", tk, rolled, sent)

\* lines 128-131: the payload handed to the consumer
PayloadToSend(cur, c, today) == [currency |-> cur, raw |-> CombinedRawData(c, today)]

SendAndReschedule_AlwaysCalls(p, cur, c, tk, rolled, cb) ==
    IF cb = "raises"
    THEN /\ pending' = p
         /\ last' = Observation("raise", tk, rolled, Some(PayloadToSend(cur, c, tk.day)))
         /\ UNCHANGED task_remover
    ELSE Reschedule(p, c, tk, rolled, Some(PayloadToSend(cur, c, tk.day)))

\* lines 212-284: deliver the merged curve to the consumer (lines 106-139),
\* then reschedule; cur is the currency and c the cache after the fetch, cb
\* is how the consumer ends if it is called
SendAndReschedule(p, cur, c, tk, rolled, cb) ==
    IF CombinedRawData(c, tk.day) # << >>
    THEN IF cb = "raises"
         THEN /\ pending' = p
              /\ last' = Observation("raise", tk, rolled, Some(PayloadToSend(cur, c, tk.day)))
              /\ UNCHANGED task_remover
         ELSE Reschedule(p, c, tk, rolled, Some(PayloadToSend(cur, c, tk.day)))
    ELSE /\ cb = "returns"
         /\ Reschedule(p, c, tk, rolled, None)

TimerFire_NoRollover(w, now, cb) ==
    /\ w \in pending
    /\ now \in LaterTimes
    /\ UNCHANGED <<is_running, currency, sensorVars, displayVars>>
    /\ IF ~is_running
       THEN /\ cb = "returns"
            /\ now = hass_now
            /\ pending' = pending \ {w}
            /\ last' = Observation("skip", NoTick, FALSE, None)
            /\ UNCHANGED <<cacheVars, task_remover, inflight, hass_now>>
       ELSE LET d == now.day
                c == Cache
                op == OperationType(c, d)
                tk == [day |-> d, tod |-> now.tod, op |-> op,
                       status |-> "NOT_ATTEMPTED", stopped |-> FALSE]
            IN  /\ SetCache(c)
                /\ hass_now' = now
                /\ IF op # "IDLE"
                   THEN /\ cb = "returns"
                        /\ BagCardinality(inflight) < MaxInFlight
                        /\ inflight' = inflight (+) SetToBag({tk})
                        /\ pending' = pending \ {w}
                        /\ last' = Observation("begin", tk, FALSE, None)
                        /\ UNCHANGED task_remover
                   ELSE /\ SendAndReschedule(pending \ {w}, currency, c, tk,
                                             FALSE, cb)
                        /\ UNCHANGED inflight

\* a wake-up fires: lines 143-189, and to the end of the tick when there is
\* nothing to fetch
TimerFire(w, now, cb) ==
    /\ w \in pending
    /\ now \in LaterTimes
    /\ UNCHANGED <<is_running, currency, sensorVars, displayVars>>
    /\ IF ~is_running
       THEN /\ cb = "returns"
            /\ now = hass_now
            /\ pending' = pending \ {w}
            /\ last' = Observation("skip", NoTick, FALSE, None)
            /\ UNCHANGED <<cacheVars, task_remover, inflight, hass_now>>
       ELSE LET d == now.day
                c == Rollover(Cache, d)
                op == OperationType(c, d)
                tk == [day |-> d, tod |-> now.tod, op |-> op,
                       status |-> "NOT_ATTEMPTED", stopped |-> FALSE]
            IN  /\ SetCache(c)
                /\ hass_now' = now
                /\ IF op # "IDLE"
                   THEN /\ cb = "returns"
                        /\ BagCardinality(inflight) < MaxInFlight
                        /\ inflight' = inflight (+) SetToBag({tk})
                        /\ pending' = pending \ {w}
                        /\ last' = Observation("begin", tk, NeedsRollover(Cache, d), None)
                        /\ UNCHANGED task_remover
                   ELSE /\ SendAndReschedule(pending \ {w}, currency, c, tk,
                                             NeedsRollover(Cache, d), cb)
                        /\ UNCHANGED inflight

\* the provider call of the in-flight tick tk0 ends with response resp: lines 189-284
ProviderReturn(tk0, resp, cb) ==
    /\ BagIn(tk0, inflight)
    /\ LET target == TargetFetchDate(tk0.op, tk0.day)
           res == ExecuteNordpoolCallLogic(resp)
           tk == [tk0 EXCEPT !.status = res.status]
           c == StoreFetched(Cache, tk0.op, target, res)
       IN  /\ resp \in Responses(target)
           /\ SetCache(c)
           /\ currency' = StoreCurrency(currency, res)
           /\ inflight' = inflight (-) SetToBag({tk0})
           /\ SendAndReschedule(pending, StoreCurrency(currency, res), c, tk,
                                FALSE, cb)
           /\ UNCHANGED <<is_running, hass_now, sensorVars, displayVars>>

\* the host fires a pending wake-up
WakeUp ==
    \E w \in pending, now \in LaterTimes, cb \in CallbackOutcomes :
        TimerFire(w, now, cb)

\* the provider call of an in-flight tick ends
ProviderCompletes ==
    \E tk \in BagToSet(inflight), cb \in CallbackOutcomes :
        \E resp \in Responses(TargetFetchDate(tk.op, tk.day)) :
            ProviderReturn(tk, resp, cb)

Next ==
    \/ Start
    \/ Stop
    \/ WakeUp
    \/ ProviderCompletes

Spec == Init /\ [][Next]_vars

----------------------------------------------------------------------------
(* The scheduler that is started and never stopped *)

NextRun ==
    \/ Start
    \/ WakeUp
    \/ ProviderCompletes

SpecRun == Init /\ [][NextRun]_vars

\* the host fires every armed wake-up and every provider call ends
SpecRunFair == SpecRun /\ WF_vars(WakeUp) /\ WF_vars(ProviderCompletes)

----------------------------------------------------------------------------
(* The scheduler when every provider call raises *)

RaisingKinds == {"raise_not_loaded", "raise_validation", "raise_other"}

FaultWakeUp == \E w \in pending, now \in LaterTimes : TimerFire(w, now, "returns")

FaultProviderRaises ==
    \E tk \in BagToSet(inflight) :
        \E resp \in {r \in Responses(TargetFetchDate(tk.op, tk.day)) :
                        r.kind \in RaisingKinds} :
            ProviderReturn(tk, resp, "returns")

NextFault ==
    \/ Start
    \/ Stop
    \/ FaultWakeUp
    \/ FaultProviderRaises

\* the host fires every armed wake-up and a provider call that raises ends
SpecFault ==
    Init /\ [][NextFault]_vars /\ WF_vars(FaultWakeUp) /\ WF_vars(FaultProviderRaises)

----------------------------------------------------------------------------
(* Claims about the scheduler *)

TickEnded == last.ev = "end"

TickEndedOrRaised == last.ev \in {"end", "raise"}

CacheIsEmpty ==
    /\ data_for_current_hass_date = None /\ date_of_current_data = None
    /\ data_for_next_hass_date = None /\ date_of_next_data = None

C2_AtMostOneTickInFlight == BagCardinality(inflight) <= 1

\* C3: a tick during whose provider call stop() was called ends with no
\* wake-up pending and is_running false.
C3_StopInFlightArmsNothing ==
    (TickEnded /\ last.stopped) => (pending = {} /\ ~is_running)

\* C4: when a tick has decided to call the provider, the call is for today+1
\* only if the current-day entry holds data dated today, and for today
\* otherwise.
C4_TomorrowOnlyAfterToday ==
    last.ev = "begin" =>
        /\ last.op \in {"TODAY", "TOMORROW"}
        /\ last.day = hass_now.day
        /\ last.op = "TOMORROW" <=>
              (Truthy(data_for_current_hass_date)
               /\ date_of_current_data = Some(hass_now.day))
        /\ \E tk \in BagToSet(inflight) :
              /\ tk.day = hass_now.day /\ tk.op = last.op
              /\ TargetFetchDate(tk.op, tk.day) =
                    IF last.op = "TOMORROW" THEN hass_now.day + 1 ELSE hass_now.day

\* a tick has called the provider for today+1
C4_Witness ==
    /\ last.ev = "begin" /\ last.op = "TOMORROW"
    /\ \E tk \in BagToSet(inflight) :
          TargetFetchDate(tk.op, tk.day) = hass_now.day + 1

\* C5: the step in which a provider call ends with a status other than
\* SUCCESS_DATA changes neither cache entry (data and date) nor the currency.
C5_ErrorKeepsCache ==
    [][(last'.ev \in {"end", "raise"} /\ last'.op # "IDLE" /\ ~last'.ok)
       => UNCHANGED <<cacheVars, currency>>]_vars

\* a tick whose TOMORROW call failed has ended: the next slot is still absent
\* and today's curve and the currency are still there
C5_Witness ==
    /\ TickEnded /\ last.op = "TOMORROW" /\ ~last.ok
    /\ data_for_next_hass_date = None /\ date_of_next_data = None
    /\ Truthy(data_for_current_hass_date) /\ currency # None

\* C6 as stated: every tick that runs while the coordinator is running calls
\* the consumer callback.
C6_CallbackEveryCycle == TickEndedOrRaised => last.sent # None

\* C6 amended: a tick calls the consumer callback exactly when its merged
\* curve is not empty, i.e. when after its fetch step the current entry is
\* valid for its local date or the next entry for the day after; the fetch
\* outcome plays no part.
C6_CallbackIffValidData ==
    TickEndedOrRaised =>
        (last.sent # None <=>
            (\/ TodaysDataIsNowOk(Cache, last.day)
             \/ TomorrowsDataIsNowOk(Cache, last.day)))

\* a tick whose call for tomorrow failed has still called the consumer
C6_Witness ==
    /\ TickEnded /\ last.op = "TOMORROW" /\ ~last.ok
    /\ last.sent # None

\* C7: no tick ends by raising, and a tick that ends while is_running is true
\* has armed the next wake-up.
C7_TickNeverRaises ==
    /\ last.ev # "raise"
    /\ (TickEnded /\ is_running) => pending # {}

\* C8: when every provider call raises, the cache stays empty, no tick raises,
\* every tick that ends while is_running is true has armed the 15 s retry,
\* and unless stop() keeps being called ticks begin and end again and again
\* for ever.
C8_FaultLoopNeverStops ==
    /\ [](CacheIsEmpty /\ currency = None /\ last.ev # "raise")
    /\ []((TickEnded /\ is_running) =>
            \E h \in 1..MaxHandles :
                /\ task_remover = Some(h)
                /\ pending = {[id |-> h, delay |-> RetryTodayDelay]})
    /\ (<>[]is_running) => ([]<>(last.ev = "begin") /\ []<>TickEnded)

\* a tick whose provider call raised has ended and armed the 15 s retry
C8_Witness ==
    /\ TickEnded /\ ~last.ok /\ is_running /\ CacheIsEmpty
    /\ \E w \in pending : w.delay = RetryTodayDelay

\* C9: a tick that begins on local day D+1 while the cache holds the curve of
\* day D in the current slot and the curve of day D+1 in the next slot moves
\* the next entry into the current slot, clears the next slot and calls the
\* provider for D+2.
C9_MidnightRollover ==
    [][(/\ last'.ev = "begin"
        /\ date_of_current_data = Some(hass_now'.day - 1)
        /\ Truthy(data_for_next_hass_date)
        /\ date_of_next_data = Some(hass_now'.day))
       => /\ data_for_current_hass_date' = data_for_next_hass_date
          /\ date_of_current_data' = date_of_next_data
          /\ data_for_next_hass_date' = None
          /\ date_of_next_data' = None
          /\ last'.rolled
          /\ last'.op = "TOMORROW"
          /\ \E tk \in BagToSet(inflight') :
                /\ CopiesIn(tk, inflight') = CopiesIn(tk, inflight) + 1
                /\ TargetFetchDate(tk.op, tk.day) = hass_now'.day + 1]_vars

\* a tick has rolled the cache over and called the provider for the day after
\* its local date
C9_Witness ==
    /\ last.ev = "begin" /\ last.rolled /\ last.op = "TOMORROW"
    /\ Truthy(data_for_current_hass_date)
    /\ date_of_current_data = Some(hass_now.day)
    /\ data_for_next_hass_date = None

\* C10: a tick that begins while the cache holds valid data for its local
\* date and for the day after calls no provider, leaves the cache unchanged
\* and ends with a wake-up armed for 13:00 of the next day.
C10_FreshCacheTickIsIdle ==
    [][(/\ last'.ev \in {"begin", "end", "raise"}
        /\ last'.ev = "begin" \/ last'.op = "IDLE"
        /\ TodaysDataIsNowOk(Cache, hass_now'.day)
        /\ TomorrowsDataIsNowOk(Cache, hass_now'.day))
       => /\ last'.ev = "end"
          /\ last'.op = "IDLE"
          /\ inflight' = inflight
          /\ UNCHANGED cacheVars
          /\ \E w \in pending' :
                w.delay = (DayLength + Cutoff13h00) - hass_now'.tod]_vars

\* C10 for the ticks whose consumer callback returns: all of the above
C10_FreshCacheTickThatReturns ==
    [][(/\ last'.ev \in {"begin", "end"}
        /\ last'.ev = "begin" \/ last'.op = "IDLE"
        /\ TodaysDataIsNowOk(Cache, hass_now'.day)
        /\ TomorrowsDataIsNowOk(Cache, hass_now'.day))
       => /\ last'.ev = "end"
          /\ last'.op = "IDLE"
          /\ inflight' = inflight
          /\ UNCHANGED cacheVars
          /\ \E w \in pending' :
                w.delay = (DayLength + Cutoff13h00) - hass_now'.tod]_vars

progVars == <<is_running, currency, cacheVars, task_remover, pending>>

\* the state start() leaves when it does its work
FreshlyStarted ==
    /\ is_running /\ currency = None /\ CacheIsEmpty
    /\ \E h \in 1..MaxHandles :
          /\ task_remover = Some(h)
          /\ pending = {[id |-> h, delay |-> InitialDelay]}

\* C11 as stated: from any state, after start() returns the currency and both
\* cache entries are absent, is_running is true and exactly one wake-up, the
\* initial 100 ms one, is pending.
C11_StartResetsFromAnyState == last.ev = "start" => FreshlyStarted

\* C11 amended: a start() called while the coordinator is not running leaves
\* the currency and both cache entries absent, is_running true and exactly
\* the initial 100 ms wake-up pending; a start() called while it is running
\* changes nothing.
C11_StartResetsWhenStopped ==
    [][last'.ev = "start" =>
          IF is_running THEN UNCHANGED progVars ELSE FreshlyStarted']_vars

\* start() has been called on a stopped coordinator while a tick of the
\* previous run was still awaiting the provider
C11_Witness ==
    /\ last.ev = "start" /\ FreshlyStarted
    /\ \E tk \in BagToSet(inflight) : tk.stopped

\* C12: after stop() is_running is false and no wake-up is pending, and a
\* stop() called in a state where is_running is false and no wake-up is
\* pending changes nothing.
C12_StopIdempotent ==
    [][last'.ev = "stop" =>
          /\ ~is_running' /\ pending' = {} /\ task_remover' = None
          /\ (~is_running /\ pending = {} /\ task_remover = None)
                => UNCHANGED progVars]_vars

\* stop() has been called on a coordinator that a tick ending after an
\* earlier stop() had left stopped with data in its cache
C12_Witness ==
    /\ last.ev = "stop" /\ ~is_running /\ pending = {}
    /\ Truthy(data_for_current_hass_date)

\* C13: a step other than start() changes the currency only at the end of a
\* provider call that gave SUCCESS_DATA, and only to a non-empty currency;
\* a known currency never becomes absent.
C13_CurrencyLastWriteWins ==
    [][last'.ev # "start" =>
          /\ currency' # currency =>
                /\ last'.ev \in {"end", "raise"} /\ last'.op # "IDLE" /\ last'.ok
                /\ \E cur \in Currencies : currency' = Some(cur)
          /\ currency # None => currency' # None]_vars

\* a fetch that gave SUCCESS_DATA with an empty curve and no currency has
\* ended and the currency known before is still there
C13_Witness ==
    /\ TickEnded /\ last.op = "TOMORROW" /\ last.ok
    /\ data_for_next_hass_date = Some(<< >>)
    /\ \E cur \in Currencies : currency = Some(cur)

----------------------------------------------------------------------------
(* The operations of the tariff engine *)

CurrentRateState_KeepsLastValues(rs, now) ==
    LET purged == IF rs # << >> THEN PurgedRates(rs, now) ELSE rs
        found == CurrentRateDetails(purged, now)
    IN  IF found # None
        THEN [rates |-> purged, level |-> found[1].level,
              spot_price |-> found[1].spot_price, cost |-> found[1].cost,
              credit |-> found[1].credit, rank |-> found[1].rank]
        ELSE [rates |-> purged, level |-> "Unknown", spot_price |-> spot_price,
              cost |-> cost, credit |-> credit, rank |-> rank]

\* lines 298-321: the visible state the lookup at now gives for the records
\* rs, and the records left by its purge
CurrentRateState(rs, now) ==
    LET purged == IF rs # << >> THEN PurgedRates(rs, now) ELSE rs
        found == CurrentRateDetails(purged, now)
    IN  IF found # None
        THEN [rates |-> purged, level |-> found[1].level,
              spot_price |-> found[1].spot_price, cost |-> found[1].cost,
              credit |-> found[1].credit, rank |-> found[1].rank]
        ELSE [rates |-> purged, level |-> "Unknown", spot_price |-> 0,
              cost |-> 0, credit |-> 0, rank |-> Some(0)]

\* _update_sensor_state_from_current_rate, then self._state = round(cost, 5)
UpdateSensorStateFromCurrentRate(rs, now) ==
    LET st == CurrentRateState(rs, now)
    IN  /\ rates' = st.rates
        /\ level' = st.level
        /\ spot_price' = st.spot_price
        /\ cost' = st.cost
        /\ credit' = st.credit
        /\ rank' = st.rank
        /\ state' = st.cost

\* lines 388-395: the except branch of async_update_data
ErrorProcessingData ==
    /\ level' = "Error Processing Data"
    /\ cost' = 0
    /\ spot_price' = 0
    /\ state' = 0
    /\ UNCHANGED <<credit, rank>>

AsyncUpdateData_AppendsToRates(data, now, ups) ==
    /\ now_local' = now
    /\ unit' = Some("kWh")
    /\ UNCHANGED <<low_threshold, high_threshold, fees, coordinatorVars,
                   displayVars>>
    /\ IF data.kind # "dict"
       THEN /\ ErrorProcessingData
            /\ seen' = Seen("update", "bad_payload", << >>)
            /\ UNCHANGED <<rates, sensor_currency, unit_of_measurement>>
       ELSE LET changed == /\ data.currency # None /\ data.currency # Some("")
                           /\ data.currency # sensor_currency
                raw == IF data.raw = None THEN << >> ELSE data.raw[1]
                produced == ProcessedRates(raw, fees, low_threshold,
                                           high_threshold, ups)
            IN  /\ sensor_currency' = IF changed THEN data.currency
                                      ELSE sensor_currency
                /\ unit_of_measurement' =
                      IF changed THEN Some(<<data.currency[1], "kWh">>)
                      ELSE unit_of_measurement
                /\ IF BatchRaises(raw)
                   THEN /\ UNCHANGED rates
                        /\ ErrorProcessingData
                        /\ seen' = Seen("update", "error", << >>)
                   ELSE /\ UpdateSensorStateFromCurrentRate(
                              SortedByStart(rates \o produced), now)
                        /\ seen' = Seen("update", "ok", produced)

\* async_update_data(nordpool_data) at local time now; data is [kind,
\* currency, raw], kind "not_dict" being a payload without .get and raw None
\* a payload without the key "raw"
AsyncUpdateData(data, now, ups) ==
    /\ now_local' = now
    /\ unit' = Some("kWh")
    /\ UNCHANGED <<low_threshold, high_threshold, fees, coordinatorVars,
                   displayVars>>
    /\ IF data.kind # "dict"
       THEN /\ ErrorProcessingData
            /\ seen' = Seen("update", "bad_payload", << >>)
            /\ UNCHANGED <<rates, sensor_currency, unit_of_measurement>>
       ELSE LET changed == /\ data.currency # None /\ data.currency # Some("")
                           /\ data.currency # sensor_currency
                raw == IF data.raw = None THEN << >> ELSE data.raw[1]
                produced == ProcessedRates(raw, fees, low_threshold,
                                           high_threshold, ups)
            IN  /\ sensor_currency' = IF changed THEN data.currency
                                      ELSE sensor_currency
                /\ unit_of_measurement' =
                      IF changed THEN Some(<<data.currency[1], "kWh">>)
                      ELSE unit_of_measurement
                /\ IF BatchRaises(raw)
                   THEN /\ rates' = << >>
                        /\ ErrorProcessingData
                        /\ seen' = Seen("update", "error", << >>)
                   ELSE /\ UpdateSensorStateFromCurrentRate(SortedByStart(produced), now)
                        /\ seen' = Seen("update", "ok", produced)

\* _refresh_sensor_state at local time now
RefreshSensorState(now) ==
    /\ now_local' = now
    /\ UpdateSensorStateFromCurrentRate(rates, now)
    /\ seen' = Seen("refresh", "ok", << >>)
    /\ UNCHANGED <<low_threshold, high_threshold, fees, unit, sensor_currency,
                   unit_of_measurement, coordinatorVars,
                   displayVars>>

\* the spot prices of the well-formed entries of a payload
SpotsOf(data) ==
    IF data.raw = None THEN {}
    ELSE {PriceKwh(data.raw[1][i].price) : i \in 1..Len(data.raw[1])}

----------------------------------------------------------------------------
(* The engine fed with short batches of hourly entries *)

\* entries of a batch
MaxBatch == 2

SlotAfter(dt, minutes) == Dt(dt.min + minutes, dt.us)

\* hourly slots with their prices: 23:00 of day 0, 00:00 (at two prices)
\* and 01:00 of day 1
SlotPrices == {<<Dt(1380, 0), 20>>, <<Dt(1440, 0), 20>>, <<Dt(1440, 0), 50>>,
               <<Dt(1500, 0), 50>>}

RawEntries ==
    {[shape |-> "ok", start |-> sp[1], end |-> SlotAfter(sp[1], 60), price |-> sp[2]] :
        sp \in SlotPrices}
    \cup {[shape |-> sh, start |-> Dt(1440, 0), end |-> Dt(1500, 0), price |-> 20] :
            sh \in {"price_none", "bad_time", "no_price"}}

Batches == UNION {[1..n -> RawEntries] : n \in 0..MaxBatch}

Payloads ==
    {[kind |-> "dict", currency |-> Some("EUR"), raw |-> Some(b)] : b \in Batches}
    \cup {[kind |-> "dict", currency |-> c, raw |-> None] :
            c \in {None, Some(""), Some("SEK")}}
    \cup {[kind |-> "not_dict", currency |-> None, raw |-> None]}

\* 23:30 of day 0; 00:30 and the last microsecond before 01:00 of day 1
SensorNows == {Dt(1410, 0), Dt(1470, 0), Dt(1499, MicrosPerMinute - 1)}

\* the local clock never runs backwards
LaterSensorNows == {n \in SensorNows : DtLeq(now_local, n)}

InitSensor ==
    /\ CoordinatorConstructed
    /\ DisplayConstructed
    /\ hass_now = [day |-> 0, tod |-> Cutoff13h00]
    /\ SensorConstructed(10000, 20000, ReferenceFees)
    /\ now_local = Dt(0, 0)

SensorUpdate ==
    \E data \in Payloads, now \in LaterSensorNows :
        \E ups \in SUBSET TieSpots(SpotsOf(data), fees) :
            AsyncUpdateData(data, now, ups)

SensorRefresh == \E now \in LaterSensorNows : RefreshSensorState(now)

NextSensor ==
    \/ SensorUpdate
    \/ SensorRefresh

SpecSensor == InitSensor /\ [][NextSensor]_vars

----------------------------------------------------------------------------
(* The engine configured in different ways and fed with one entry *)

ZeroFees ==
    [supplier_fixed_fee |-> 0, supplier_variable_fee |-> 0,
     supplier_fixed_credit |-> 0, supplier_variable_credit |-> 0,
     grid_fixed_fee |-> 0, grid_variable_fee |-> 0,
     grid_fixed_credit |-> 0, grid_variable_credit |-> 0,
     grid_energy_tax |-> 0, electricity_vat |-> 0]

Vats == {0, 25}

Taxes == {0, 3000}

FeeConfigs ==
    {[f EXCEPT !.electricity_vat = v, !.grid_energy_tax = t] :
        f \in {ZeroFees, ReferenceFees}, v \in Vats, t \in Taxes}

\* pairs low < high; some are costs the configurations above give
TariffThresholds == {<<-1000, 2000>>, <<2000, 5000>>, <<10000, 20000>>,
                     <<10075, 13937>>}

TariffPrices == {-10, 20, 50, 80}

InitTariff ==
    /\ CoordinatorConstructed
    /\ DisplayConstructed
    /\ hass_now = [day |-> 0, tod |-> Cutoff13h00]
    /\ \E th \in TariffThresholds, f \in FeeConfigs :
          SensorConstructed(th[1], th[2], f)
    /\ now_local = Dt(0, 0)

\* the first batch after construction holds the entry of the slot that is
\* current
TariffUpdate ==
    /\ seen.op = "init"
    /\ \E p \in TariffPrices :
          LET data == [kind |-> "dict", currency |-> Some("EUR"),
                       raw |-> Some(<<[shape |-> "ok", start |-> Dt(1440, 0),
                                       end |-> Dt(1500, 0), price |-> p]>>)]
          IN  \E ups \in SUBSET TieSpots(SpotsOf(data), fees) :
                  AsyncUpdateData(data, Dt(1470, 0), ups)

NextTariff == TariffUpdate

SpecTariff == InitTariff /\ [][NextTariff]_vars

----------------------------------------------------------------------------
(* The engine fed with the curve of one day of many slots *)

\* slots of the day
MaxGroupSize == 100

DayShapes == {"rising", "falling", "flat"}

\* the curve of n ten-minute slots of day 1 whose prices rise, fall or stay
DayCurve(n, shape) ==
    [k \in 1..n |->
        [shape |-> "ok", start |-> Dt(1440 + 10 * (k - 1), 0),
         end |-> Dt(1440 + 10 * k, 0),
         price |-> CASE shape = "rising" -> k
                     [] shape = "falling" -> n + 1 - k
                     [] OTHER -> 20]]

InitBigDay ==
    /\ CoordinatorConstructed
    /\ DisplayConstructed
    /\ hass_now = [day |-> 0, tod |-> Cutoff13h00]
    /\ SensorConstructed(10000, 20000, ZeroFees)
    /\ now_local = Dt(0, 0)

\* the first batch after construction is the curve of the day
BigDayUpdate ==
    /\ seen.op = "init"
    /\ \E n \in 1..MaxGroupSize, shape \in DayShapes :
          AsyncUpdateData([kind |-> "dict", currency |-> Some("EUR"),
                           raw |-> Some(DayCurve(n, shape))],
                          Dt(1445, 0), {})

NextBigDay == BigDayUpdate

SpecBigDay == InitBigDay /\ [][NextBigDay]_vars

----------------------------------------------------------------------------
(* The engine constructed with or without thresholds; in this specification
   money is in whole currency units per kWh, so that the default thresholds
   fit *)

\* line 76: the high threshold of a configuration without one
DefaultHighThreshold == 1000000000

\* line 77: the low threshold of a configuration without one
DefaultLowThreshold == -1000000000

\* lines 76-77: entry.options.get(key, 0.0) or default, the option being None
\* when the key is absent or null; a configured 0.0 is falsy too
ThresholdOrDefault(opt, default) ==
    IF opt = None \/ opt = Some(0) THEN default ELSE opt[1]

LowThresholdOptions == {None, Some(0), Some(-1), Some(1)}

HighThresholdOptions == {None, Some(0), Some(2), Some(3)}

\* costs between, at and beyond the thresholds above
ClassifiedCosts == {-2000000000, -1000000001, -1000000000, -2, -1, 0, 1, 2, 3, 4,
                    1000000000, 1000000001, 2000000000}

InitThresholds ==
    /\ CoordinatorConstructed
    /\ DisplayConstructed
    /\ hass_now = [day |-> 0, tod |-> Cutoff13h00]
    /\ \E lo \in LowThresholdOptions, hi \in HighThresholdOptions :
          SensorConstructed(ThresholdOrDefault(lo, DefaultLowThreshold),
                            ThresholdOrDefault(hi, DefaultHighThreshold), ZeroFees)
    /\ now_local = Dt(0, 0)

\* calculate_level(c) is called; it changes nothing, seen keeps the cost and
\* the level returned
ClassifyCost ==
    \E c \in ClassifiedCosts :
        /\ seen' = Seen("calculate_level",
                        CalculateLevel(c, low_threshold, high_threshold), <<c>>)
        /\ UNCHANGED <<low_threshold, high_threshold, fees, level, cost, credit,
                       spot_price, rank, state, rates, unit, sensor_currency,
                       unit_of_measurement, now_local, coordinatorVars,
                   displayVars>>

NextThresholds == ClassifyCost

SpecThresholds == InitThresholds /\ [][NextThresholds]_vars

----------------------------------------------------------------------------
(* The engine fed in turn with two curves.  The curves are kept in the two
   slots of the cache of the scheduler, which no step of this specification
   changes, so that the rate list can be compared with the curve it was made
   from *)

\* the curve of the other batch: 23:00 of day 0 and 01:00 of day 1
OtherCurve ==
    <<[shape |-> "ok", start |-> Dt(1380, 0), end |-> Dt(1440, 0), price |-> 50],
      [shape |-> "ok", start |-> Dt(1500, 0), end |-> Dt(1560, 0), price |-> 20]>>

InitReplace ==
    /\ is_running = FALSE
    /\ currency = Some("EUR")
    /\ data_for_current_hass_date \in {Some(b) : b \in Batches}
    /\ date_of_current_data = None
    /\ data_for_next_hass_date = Some(OtherCurve)
    /\ date_of_next_data = None
    /\ task_remover = None
    /\ pending = {}
    /\ inflight = EmptyBag
    /\ last = Observation("init", NoTick, FALSE, None)
    /\ DisplayConstructed
    /\ hass_now = [day |-> 0, tod |-> Cutoff13h00]
    /\ SensorConstructed(10000, 20000, ZeroFees)
    /\ now_local = Dt(0, 0)

\* the engine is handed the curve held in a slot
ReplaceWith(slot, now) ==
    LET data == [kind |-> "dict", currency |-> currency, raw |-> slot]
    IN  \E ups \in SUBSET TieSpots(SpotsOf(data), fees) :
            AsyncUpdateData(data, now, ups)

ReplaceWithCurrent ==
    \E now \in LaterSensorNows : ReplaceWith(data_for_current_hass_date, now)

ReplaceWithOther ==
    \E now \in LaterSensorNows : ReplaceWith(data_for_next_hass_date, now)

NextReplace ==
    \/ ReplaceWithCurrent
    \/ ReplaceWithOther

SpecReplace == InitReplace /\ [][NextReplace]_vars

----------------------------------------------------------------------------
(* _execute_nordpool_call_logic on everything the service call can do *)

\* the most area keys a response dictionary has
MaxAreas == 2

\* what the text of an exception can say
ExceptionTexts == {"entry_not_loaded", "not loaded", "did not set up", "other"}

\* every way hass.services.async_call can end for fetch date d: a dictionary
\* with some area keys, the first of which holds a list or something else,
\* together with what the currency entity of that area shows; None; a value
\* that is no dictionary; an exception
ServiceOutcomes(d) ==
    [type : {"dict"}, keys : 0..MaxAreas, value_is_list : BOOLEAN,
     raw : Curves(d), cur : CurrencyStates, exc : {"none"}, text : {"other"}]
    \cup [type : {"None", "not_dict"}, keys : {0}, value_is_list : {FALSE},
          raw : {<< >>}, cur : {"absent"}, exc : {"none"}, text : {"other"}]
    \cup [type : {"raise"}, keys : {0}, value_is_list : {FALSE},
          raw : {<< >>}, cur : {"absent"},
          exc : {"ServiceValidationError", "Exception"}, text : ExceptionTexts]

\* lines 49-56, 85-103: the branch of _execute_nordpool_call_logic an outcome
\* of the service call takes
ResponseOf(o) ==
    LET kind ==
            CASE o.type = "raise" ->
                    IF o.exc = "ServiceValidationError"
                    THEN IF o.text # "other" THEN "raise_not_loaded"
                         ELSE "raise_validation"
                    ELSE "raise_other"
              [] o.type = "dict" /\ o.keys = 1 ->
                    IF o.value_is_list THEN "area_list" ELSE "area_not_list"
              [] o.type = "dict" /\ o.keys > 1 -> "multi_area"
              [] OTHER -> "empty"
    IN  [kind |-> kind,
         raw |-> IF kind = "area_list" THEN o.raw ELSE << >>,
         cur |-> IF kind = "area_list" THEN o.cur ELSE "absent"]

InitProvider ==
    /\ CoordinatorConstructed
    /\ DisplayConstructed
    /\ hass_now = [day |-> 0, tod |-> Cutoff13h00]
    /\ SensorConstructed(DefaultLowThreshold, DefaultHighThreshold, ZeroFees)
    /\ now_local = Dt(0, 0)

\* _execute_nordpool_call_logic(fetch_date) is called and the service call
\* ends with outcome o; last keeps the outcome and what was returned
ExecuteNordpoolCall ==
    \E d \in 0..(MaxDay + 1) : \E o \in ServiceOutcomes(d) :
        /\ last' = [ev |-> "call", fetch_date |-> d, outcome |-> o,
                    returned |-> ExecuteNordpoolCallLogic(ResponseOf(o))]
        /\ UNCHANGED <<is_running, currency, cacheVars, task_remover, pending,
                       inflight, hass_now, sensorVars, displayVars>>

NextProvider == ExecuteNordpoolCall

SpecProvider == InitProvider /\ [][NextProvider]_vars

----------------------------------------------------------------------------
(* The pattern of the clock: generate_level_pattern *)

\* util.py line 12
step_in_minutes == 12

\* util.py line 13
pattern_length_in_hours == 36

\* more steps than the loop of lines 25-64 can make
StepLimit == (pattern_length_in_hours * 60) \div step_in_minutes + 2

\* lines 22 and 63: current_start of the k-th pass of the loop, k from 0
CurrentStart(start_time, k) == SlotAfter(start_time, k * step_in_minutes)

CurrentEnd_EndOfStep(start_time, k) ==
    SlotAfter(start_time, (k + 1) * step_in_minutes)

\* lines 23 and 64: current_end of the k-th pass
CurrentEnd(start_time, k) ==
    MinusOneMicrosecond(SlotAfter(start_time, (k + 1) * step_in_minutes))

LoopPasses_ByCurrentStart(start_time) ==
    LET end_time == SlotAfter(start_time, pattern_length_in_hours * 60)
    IN  {k \in 0..StepLimit : DtLeq(CurrentStart(start_time, k), end_time)}

\* lines 20 and 25: the passes of the loop; current_end grows with k, so they
\* are the passes whose current_end is not after end_time
LoopPasses(start_time) ==
    LET end_time == SlotAfter(start_time, pattern_length_in_hours * 60)
    IN  {k \in 0..StepLimit : DtLeq(CurrentEnd(start_time, k), end_time)}

StepChar_AverageRoundedUp(rs, current_start, current_end) ==
    LET Counted(lv) == Cardinality({i \in 1..Len(rs) :
                            /\ DtLeq(rs[i].start, current_start)
                            /\ DtLeq(current_end, rs[i].end)
                            /\ rs[i].level = lv})
        level_count == Counted("Low") + Counted("Medium") + Counted("High")
        level_sum == Counted("Low") + 2 * Counted("Medium") + 3 * Counted("High")
    IN  IF level_count = 0 THEN "U"
        ELSE IF 2 * level_sum >= 5 * level_count THEN "H"
        ELSE IF 2 * level_sum >= 3 * level_count THEN "M"
        ELSE "L"

\* lines 26-59: the character of one pass; average_level = level_sum /
\* level_count is compared with 2 and 1
StepChar(rs, current_start, current_end) ==
    LET Counted(lv) == Cardinality({i \in 1..Len(rs) :
                            /\ DtLeq(rs[i].start, current_start)
                            /\ DtLeq(current_end, rs[i].end)
                            /\ rs[i].level = lv})
        level_count == Counted("Low") + Counted("Medium") + Counted("High")
        level_sum == Counted("Low") + 2 * Counted("Medium") + 3 * Counted("High")
    IN  IF level_count = 0 THEN "U"
        ELSE IF level_sum > 2 * level_count THEN "H"
        ELSE IF level_sum > level_count THEN "M"
        ELSE "L"

\* generate_level_pattern(rates); the arguments None and [] are both << >>
GenerateLevelPattern(rs) ==
    IF rs = << >>
    THEN [k \in 1..((pattern_length_in_hours * 60) \div step_in_minutes) |-> "U"]
    ELSE LET start_time == rs[1].start
         IN  [k \in 1..Cardinality(LoopPasses(start_time)) |->
                 StepChar(rs, CurrentStart(start_time, k - 1),
                          CurrentEnd(start_time, k - 1))]

\* rate records of a pattern
MaxPatternRates == 3

\* the instant h hours and m minutes after 10:00 of day 0
After10h(h, m) == Dt(600 + 60 * h + m, 0)

\* records handed to generate_level_pattern: the three overlapping six-hour
\* windows of the tests, one of unknown level, one that starts in the middle
\* of a step, one that ends a microsecond before the hour as the records of
\* the engine do, one that ends a microsecond earlier still, one of an
\* unrecognized level and one that reaches beyond the 36 hours
PatternRecords ==
    {[start |-> After10h(0, 0), end |-> After10h(6, 0), level |-> "Low"],
     [start |-> After10h(2, 0), end |-> After10h(8, 0), level |-> "Medium"],
     [start |-> After10h(4, 0), end |-> After10h(10, 0), level |-> "High"],
     [start |-> After10h(0, 0), end |-> After10h(4, 0), level |-> "Unknown"],
     [start |-> After10h(0, 6), end |-> After10h(1, 0), level |-> "High"],
     [start |-> After10h(10, 0), end |-> MinusOneMicrosecond(After10h(11, 0)),
      level |-> "Medium"],
     [start |-> After10h(11, 0),
      end |-> MinusOneMicrosecond(MinusOneMicrosecond(After10h(12, 0))),
      level |-> "Low"],
     [start |-> After10h(0, 0), end |-> After10h(2, 0), level |-> "Extreme"],
     [start |-> After10h(35, 0), end |-> After10h(40, 0), level |-> "High"]}

PatternInputs == UNION {[1..n -> PatternRecords] : n \in 0..MaxPatternRates}

InitPattern ==
    /\ CoordinatorConstructed
    /\ DisplayConstructed
    /\ hass_now = [day |-> 0, tod |-> Cutoff13h00]
    /\ SensorConstructed(10000, 20000, ReferenceFees)
    /\ now_local = Dt(0, 0)

\* TimeSensor._generate_level_clock_pattern, the first time after construction
GenerateLevelClockPattern ==
    /\ pattern_rates = None
    /\ \E rs \in PatternInputs :
          /\ pattern_rates' = Some(rs)
          /\ level_clock_pattern' = GenerateLevelPattern(rs)
    /\ UNCHANGED <<calculated_levels, service_seconds, service_compact,
                   lifecycleVars, coordinatorVars, sensorVars>>

NextPattern == GenerateLevelClockPattern

SpecPattern == InitPattern /\ [][NextPattern]_vars

----------------------------------------------------------------------------
(* The compact value: calculate_levels and _fetch_compact_values *)

Min(a, b) == IF a < b THEN a ELSE b

\* compactlevels.py lines 181 and 190: math.ceil((end - start).total_seconds()
\* / 60), the whole minutes plus one if microseconds are left over
CeilMinutes(start, end) ==
    (end.min - start.min) + (IF end.us > start.us THEN 1 ELSE 0)

\* lines 184-192: the cost of every record, once per minute of its length
RECURSIVE MinuteCosts(_)
MinuteCosts(rs) ==
    IF rs = << >> THEN << >>
    ELSE [m \in 1..CeilMinutes(Head(rs).start, Head(rs).end) |-> Head(rs).cost]
         \o MinuteCosts(Tail(rs))

\* lines 198-203: the character of a chunk of per-minute costs
ChunkChar(chunk, low, high) ==
    IF \A v \in chunk : v <= low THEN "L"
    ELSE IF \A v \in chunk : v < high THEN "M"
    ELSE "H"

\* calculate_levels(hass, requested_length, fill_unknown) where the state of
\* the engine has the attributes rates rs, low_threshold low and
\* high_threshold high
CalculateLevels(rs, low, high, requested_length, fill_unknown) ==
    LET level_length == IF rs = << >> THEN 0
                        ELSE IF requested_length = 0
                             THEN CeilMinutes(rs[1].start, rs[1].end)
                             ELSE requested_length
        levels == MinuteCosts(rs)
        chunks == IF level_length > 0
                  THEN (Len(levels) + level_length - 1) \div level_length
                  ELSE 0
        levels_str ==
            [j \in 1..chunks |->
                ChunkChar({levels[m] : m \in ((j - 1) * level_length + 1)
                                             ..Min(j * level_length, Len(levels))},
                          low, high)]
        two_days == IF level_length > 0 THEN (2 * 24 * 60) \div level_length ELSE 0
    IN  [level_length |-> level_length,
         levels |-> IF chunks > 0 /\ fill_unknown /\ chunks < two_days
                    THEN levels_str \o [j \in 1..(two_days - chunks) |-> "U"]
                    ELSE levels_str]

\* seq[a:b] of Python for 0 <= a <= b
Slice(seq, a, b) == SubSeq(seq, a + 1, Min(b, Len(seq)))

CompactValue_Unpadded(result, minutes_since_midnight) ==
    LET levels_str == result.levels
        level_length == result.level_length
        current_level_index ==
            IF level_length > 0 THEN minutes_since_midnight \div level_length ELSE 0
        levels_in_1_hour == IF level_length > 0 THEN 60 \div level_length ELSE 0
        levels_in_12_hours == 12 * levels_in_1_hour
        passed_start == IF current_level_index - levels_in_1_hour < 0
                        THEN current_level_index - levels_in_1_hour
                             + 2 * levels_in_12_hours
                        ELSE current_level_index - levels_in_1_hour
        passed_end == passed_start + levels_in_1_hour
    IN  [minutes |-> minutes_since_midnight, level_length |-> level_length,
         passed |-> Slice(levels_str, passed_start, passed_end),
         future |-> Slice(levels_str, passed_end, passed_end + levels_in_12_hours)]

\* lines 110-142: the compact value (minutes : level length : passed :
\* future) made from the result of calculate_levels at the whole minute
\* minutes_since_midnight of the day
CompactValue(result, minutes_since_midnight) ==
    LET levels_str == result.levels
        level_length == result.level_length
        current_level_index ==
            IF level_length > 0 THEN minutes_since_midnight \div level_length ELSE 0
        levels_in_1_hour == IF level_length > 0 THEN 60 \div level_length ELSE 0
        levels_in_12_hours == 12 * levels_in_1_hour
        passed_start == IF current_level_index - levels_in_1_hour < 0
                        THEN current_level_index - levels_in_1_hour
                             + 2 * levels_in_12_hours
                        ELSE current_level_index - levels_in_1_hour
        passed_end == passed_start + levels_in_1_hour
        future_start == passed_end
        future_end == future_start + levels_in_12_hours
        passed_levels == Slice(levels_str, passed_start, passed_end)
        future_levels == Slice(levels_str, future_start, future_end)
    IN  IF Len(levels_str) > 0
        THEN [minutes |-> minutes_since_midnight, level_length |-> level_length,
              passed |-> [j \in 1..(levels_in_1_hour - Len(passed_levels)) |-> "U"]
                         \o passed_levels,
              future |-> future_levels
                         \o [j \in 1..(levels_in_12_hours - Len(future_levels)) |-> "U"]]
        ELSE [minutes |-> minutes_since_midnight, level_length |-> level_length,
              passed |-> << >>, future |-> << >>]

\* _fetch_compact_values at local time now, stored as _periodic_update does
\* (lines 86, 105-108)
FetchCompactValues(now) ==
    LET result == CalculateLevels(rates, low_threshold, high_threshold, 0, FALSE)
        minutes_since_midnight == now.min % MinutesPerDay
    IN  /\ now_local' = now
        /\ calculated_levels' = Some(result)
        /\ service_seconds' = Some(minutes_since_midnight)
        /\ service_compact' = Some(CompactValue(result, minutes_since_midnight))

\* hourly slots of the curve of a day
MaxCurveSlots == 3

\* prices that give, with the reference fees, the costs 0.04925, 0.10075,
\* 0.13937 and 0.17799
CurvePrices == {-20, 20, 50, 80}

\* the curve of day 1 from midnight on: n hourly slots with the prices ps
HourlyCurve(ps) ==
    [k \in 1..Len(ps) |->
        [shape |-> "ok", start |-> Dt(MinutesPerDay + 60 * (k - 1), 0),
         end |-> Dt(MinutesPerDay + 60 * k, 0), price |-> ps[k]]]

\* 00:30, 01:30 and 02:10 of day 1
CompactNows == {Dt(MinutesPerDay + 30, 0), Dt(MinutesPerDay + 90, 0),
                Dt(MinutesPerDay + 130, 0)}

\* the thresholds are the costs of two of the prices
InitCompact ==
    /\ CoordinatorConstructed
    /\ DisplayConstructed
    /\ hass_now = [day |-> 0, tod |-> Cutoff13h00]
    /\ SensorConstructed(10075, 13937, ReferenceFees)
    /\ now_local = Dt(0, 0)

\* the first batch after construction is the curve of day 1, at 00:30
CompactUpdate ==
    /\ seen.op = "init"
    /\ \E n \in 1..MaxCurveSlots :
          \E ps \in [1..n -> CurvePrices] :
              LET data == [kind |-> "dict", currency |-> Some("EUR"),
                           raw |-> Some(HourlyCurve(ps))]
              IN  \E ups \in SUBSET TieSpots(SpotsOf(data), fees) :
                      AsyncUpdateData(data, Dt(MinutesPerDay + 30, 0), ups)

\* the periodic update of the compact value
CompactFetch ==
    /\ seen.op = "update"
    /\ \E now \in {n \in CompactNows : DtLeq(now_local, n)} :
          FetchCompactValues(now)
    /\ UNCHANGED <<pattern_rates, level_clock_pattern, lifecycleVars,
                   coordinatorVars,
                   low_threshold, high_threshold, fees, level, cost, credit,
                   spot_price, rank, state, rates, unit, sensor_currency,
                   unit_of_measurement, seen>>

NextCompact ==
    \/ CompactUpdate
    \/ CompactFetch

SpecCompact == InitCompact /\ [][NextCompact]_vars

----------------------------------------------------------------------------
(* The compact value at several step lengths and times of day *)

\* slots of the curve
MaxWindowSlots == 5

\* the minutes a slot of the curve can last
StepLengths == {15, 30, 60}

\* the curve of day 1 from midnight on: n slots of len minutes whose prices
\* alternate between the lowest and the highest
SlotCurve(n, len) ==
    [k \in 1..n |->
        [shape |-> "ok", start |-> Dt(MinutesPerDay + len * (k - 1), 0),
         end |-> Dt(MinutesPerDay + len * k, 0),
         price |-> IF k % 2 = 1 THEN -20 ELSE 80]]

WindowCurves ==
    {<< >>} \cup {SlotCurve(n, len) : n \in 1..MaxWindowSlots, len \in StepLengths}

\* 00:00, 00:20, 00:50, 01:10, 02:40 and 23:50 of day 1
WindowNows == {Dt(MinutesPerDay + m, 0) : m \in {0, 20, 50, 70, 160, 1430}}

\* lines 116-119 and 149: the seconds until the next periodic update
NextUpdateSeconds(result, minutes_since_midnight) ==
    IF Len(result.levels) > 0
    THEN (result.level_length - (minutes_since_midnight % result.level_length)) * 60
    ELSE 5

\* the first batch after construction is a curve of day 1, at 00:00
WindowsUpdate ==
    /\ seen.op = "init"
    /\ \E curve \in WindowCurves :
          AsyncUpdateData([kind |-> "dict", currency |-> Some("EUR"),
                           raw |-> Some(curve)],
                          Dt(MinutesPerDay, 0), {})

\* one pass of _periodic_update (lines 84-89); seen keeps the seconds it
\* sleeps afterwards
WindowsFetch ==
    /\ seen.op = "update"
    /\ \E now \in WindowNows :
          /\ FetchCompactValues(now)
          /\ seen' = Seen("fetch_compact",
                          NextUpdateSeconds(
                              CalculateLevels(rates, low_threshold,
                                              high_threshold, 0, FALSE),
                              now.min % MinutesPerDay),
                          << >>)
    /\ UNCHANGED <<pattern_rates, level_clock_pattern, lifecycleVars,
                   coordinatorVars,
                   low_threshold, high_threshold, fees, level, cost, credit,
                   spot_price, rank, state, rates, unit, sensor_currency,
                   unit_of_measurement>>

NextWindows ==
    \/ WindowsUpdate
    \/ WindowsFetch

SpecWindows == InitCompact /\ [][NextWindows]_vars

----------------------------------------------------------------------------
(* calculate_levels with a requested step length and with padding *)

\* hourly slots of the longest curve: two days and an hour, as the engine
\* holds when today has 25 hours
MaxLevelSlots == 49

\* the curves of day 1 from midnight on
LevelCurves ==
    {<< >>}
    \cup {SlotCurve(n, 60) : n \in {1, 2, MaxLevelSlots - 1, MaxLevelSlots}}
    \cup {SlotCurve(n, 15) : n \in {1, 3}}

\* the step lengths asked for; 0 asks for the length of the first record
RequestedLengths == {0, 15, 30, 45, 50, 60}

\* what the first sensor state with an attribute "rates" holds: the records,
\* the thresholds (None when the attribute is missing) and whether start and
\* end of the records are datetimes or, as in the state of another
\* integration, texts
SensorStates(rs, low, high) ==
    [rates : {rs}, low_threshold : {None, Some(low)}, high_threshold : {Some(high)},
     timestamps : {"datetime", "str"}]

\* lines 176 and 179-192: the records are processed and that raises
ProcessingRaises(st) ==
    /\ st.rates # << >>
    /\ st.low_threshold # None /\ st.high_threshold # None
    /\ st.timestamps = "str"

CalculateLevelsOfState_KeepsLengthOnError(st, requested_length, fill_unknown) ==
    IF ProcessingRaises(st)
    THEN [level_length |-> requested_length, levels |-> << >>]
    ELSE IF st.low_threshold = None \/ st.high_threshold = None
         THEN [level_length |-> 0, levels |-> << >>]
         ELSE CalculateLevels(st.rates, st.low_threshold[1], st.high_threshold[1],
                              requested_length, fill_unknown)

\* lines 165-221: calculate_levels on the sensor state st
CalculateLevelsOfState(st, requested_length, fill_unknown) ==
    IF ProcessingRaises(st)
    THEN [level_length |-> 0, levels |-> << >>]
    ELSE IF st.low_threshold = None \/ st.high_threshold = None
         THEN [level_length |-> 0, levels |-> << >>]
         ELSE CalculateLevels(st.rates, st.low_threshold[1], st.high_threshold[1],
                              requested_length, fill_unknown)

\* the first batch after construction is a curve of day 1, at 00:00
LevelsUpdate ==
    /\ seen.op = "init"
    /\ \E curve \in LevelCurves :
          AsyncUpdateData([kind |-> "dict", currency |-> Some("EUR"),
                           raw |-> Some(curve)],
                          Dt(MinutesPerDay, 0), {})

\* calculate_levels(hass, requested_length, fill_unknown) is called; seen
\* keeps the arguments, the sensor state it found and whether processing it
\* raised
LevelsCalculate ==
    /\ seen.op = "update"
    /\ \E st \in SensorStates(rates, low_threshold, high_threshold),
          requested_length \in RequestedLengths, fill_unknown \in BOOLEAN :
          /\ calculated_levels' =
                Some(CalculateLevelsOfState(st, requested_length, fill_unknown))
          /\ seen' = Seen("calculate_levels",
                          IF ProcessingRaises(st) THEN "error" ELSE "ok",
                          <<requested_length, fill_unknown, st>>)
    /\ UNCHANGED <<pattern_rates, level_clock_pattern, service_seconds,
                   service_compact, lifecycleVars, coordinatorVars,
                   low_threshold, high_threshold, fees, level, cost, credit,
                   spot_price, rank, state, rates, unit, sensor_currency,
                   unit_of_measurement, now_local>>

NextLevels ==
    \/ LevelsUpdate
    \/ LevelsCalculate

SpecLevels == InitCompact /\ [][NextLevels]_vars

----------------------------------------------------------------------------
(* The start of CompactLevelsSensor (LevelsSensor starts the same way) *)

\* calls of async_added_to_hass
MaxListeners == 2

\* calls of listeners that have not run yet
MaxHandlerCalls == 2

\* what the entity of the engine shows; "absent": there is no state, and the
\* new_state of the event is None
PriceStates == {"absent", "unavailable", "unknown", "valid"}

\* lines 62 and 68
IsValidState(st) == st \notin {"absent", "unavailable", "unknown"}

StartLevelsSensor_Unguarded ==
    /\ waiting_for_first_value' = FALSE
    /\ FetchCompactValues(now_local)
    /\ tasks_created' = tasks_created + 1

\* lines 71-77: _start_levels_sensor, which does not suspend
StartLevelsSensor ==
    IF ~waiting_for_first_value
    THEN UNCHANGED <<waiting_for_first_value, tasks_created, now_local,
                     calculated_levels, service_seconds, service_compact>>
    ELSE /\ waiting_for_first_value' = FALSE
         /\ FetchCompactValues(now_local)
         /\ tasks_created' = tasks_created + 1

\* what the start of the sensor leaves alone
LifecycleFrame ==
    UNCHANGED <<pattern_rates, level_clock_pattern, coordinatorVars,
                low_threshold, high_threshold, fees, level, cost, credit,
                spot_price, rank, state, rates, unit, sensor_currency,
                unit_of_measurement, seen>>

\* lines 52-63: async_added_to_hass registers the listener and looks at the
\* state of the entity of the engine
AddedToHass ==
    /\ listeners < MaxListeners
    /\ listeners' = listeners + 1
    /\ IF IsValidState(price_state)
       THEN StartLevelsSensor
       ELSE UNCHANGED <<waiting_for_first_value, tasks_created, now_local,
                        calculated_levels, service_seconds, service_compact>>
    /\ UNCHANGED <<price_state, handler_calls>>
    /\ LifecycleFrame

\* the entity of the engine changes its state: the host schedules a call of
\* every registered listener (lines 55-59)
PriceStateChanges ==
    \E new_state \in PriceStates :
        /\ BagCardinality(handler_calls) + listeners <= MaxHandlerCalls
        /\ price_state' = new_state
        /\ handler_calls' =
              IF listeners = 0 THEN handler_calls
              ELSE handler_calls (+) [x \in {new_state} |-> listeners]
        /\ UNCHANGED <<waiting_for_first_value, tasks_created, listeners,
                       now_local, calculated_levels, service_seconds,
                       service_compact>>
        /\ LifecycleFrame

\* lines 65-69: _handle_electricity_price_level_update runs for an event
HandleElectricityPriceLevelUpdate ==
    \E new_state \in BagToSet(handler_calls) :
        /\ handler_calls' = handler_calls (-) SetToBag({new_state})
        /\ IF IsValidState(new_state) /\ waiting_for_first_value
           THEN StartLevelsSensor
           ELSE UNCHANGED <<waiting_for_first_value, tasks_created, now_local,
                            calculated_levels, service_seconds, service_compact>>
        /\ UNCHANGED <<price_state, listeners>>
        /\ LifecycleFrame

NextLifecycle ==
    \/ AddedToHass
    \/ PriceStateChanges
    \/ HandleElectricityPriceLevelUpdate

SpecLifecycle == InitCompact /\ [][NextLifecycle]_vars

----------------------------------------------------------------------------
(* Claims about the tariff engine *)

Abs(x) == IF x < 0 THEN 0 - x ELSE x

\* the records of the sequence rs
RecordsOf(rs) == {rs[i] : i \in 1..Len(rs)}

\* C14: calculate_level gives Low exactly for the costs below the low
\* threshold, High exactly for the costs above the high threshold and Medium
\* for the others, a cost equal to a threshold included; checked for the cost
\* of every record produced and for the costs at and next to the thresholds.
C14_LevelByThresholds ==
    /\ low_threshold < high_threshold
    /\ \A c \in {low_threshold - 1, low_threshold, low_threshold + 1,
                 high_threshold - 1, high_threshold, high_threshold + 1} :
          LET lv == CalculateLevel(c, low_threshold, high_threshold)
          IN  /\ lv \in {"Low", "Medium", "High"}
              /\ lv = "Low" <=> c < low_threshold
              /\ lv = "High" <=> c > high_threshold
    /\ \A r \in RecordsOf(rates) :
          /\ r.level \in {"Low", "Medium", "High"}
          /\ r.level = "Low" <=> r.cost < low_threshold
          /\ r.level = "High" <=> r.cost > high_threshold
          /\ r.cost \in {low_threshold, high_threshold} => r.level = "Medium"

\* an entry whose cost equals a threshold has been classified Medium
C14_Witness ==
    \E r \in RecordsOf(rates) :
        r.cost = low_threshold /\ r.level = "Medium" /\ level = "Medium"

\* C15: the cost and the credit of every record produced are the claim's
\* formulas rounded to 5 decimals (the multiple of 0.00001 nearest to the
\* exact value), the credit is the same under every VAT and energy tax, and
\* the reference configuration gives cost 0.13937 (0.13938 if the tie is
\* rounded up) and credit 0.05735 for the spot price 0.05.
C15_CostAndCreditFormula ==
    \A r \in RecordsOf(rates) :
        LET f == fees
            sp == r.spot_price
            exactCost ==
                (sp * (1000 + f.supplier_variable_fee + f.grid_variable_fee)
                 + 1000 * (f.supplier_fixed_fee + f.grid_fixed_fee + f.grid_energy_tax))
                * (100 + f.electricity_vat)
            exactCredit ==
                sp * (1000 + f.supplier_variable_credit + f.grid_variable_credit)
                + 1000 * (f.supplier_fixed_credit + f.grid_fixed_credit)
        IN  /\ 2 * Abs(r.cost * 100000 - exactCost) <= 100000
            /\ 2 * Abs(r.credit * 1000 - exactCredit) <= 1000
            /\ \A v \in Vats, t \in Taxes, ups \in SUBSET {sp} :
                  CalculateCostAndCredit(
                      sp, [f EXCEPT !.electricity_vat = v, !.grid_energy_tax = t],
                      ups).credit
                  = CalculateCostAndCredit(sp, f, ups).credit
            /\ (f = ReferenceFees /\ sp = 5000) =>
                  (r.cost \in {13937, 13938} /\ r.credit = 5735)

\* the reference case has been computed
C15_Witness ==
    /\ fees = ReferenceFees
    /\ \E r \in RecordsOf(rates) :
          r.spot_price = 5000 /\ r.cost = 13937 /\ r.credit = 5735
    /\ cost = 13937 /\ credit = 5735

\* the 0-based position of the k-th record of rs in the price-ascending
\* stable order of the records of its local day
PositionInDay(rs, k) ==
    Cardinality({j \in 1..Len(rs) :
                    /\ DateOf(rs[j].start) = DateOf(rs[k].start)
                    /\ \/ rs[j].spot_price < rs[k].spot_price
                       \/ rs[j].spot_price = rs[k].spot_price /\ j < k})

\* the number of records of rs on the local day of the k-th one
SizeOfDay(rs, k) ==
    Cardinality({j \in 1..Len(rs) : DateOf(rs[j].start) = DateOf(rs[k].start)})

\* C16: every record produced by async_update_data has a rank in 1..100: in
\* a day group of n > 1 entries the entry at 0-based position i of the
\* price-ascending stable order has rank floor(99 i / (n - 1)) + 1, and in a
\* group of one entry the rank is 1.
C16_RankByPosition ==
    (seen.op = "update" /\ seen.outcome = "ok") =>
        \A k \in 1..Len(seen.produced) :
            LET n == SizeOfDay(seen.produced, k)
                i == PositionInDay(seen.produced, k)
                rk == seen.produced[k].rank
            IN  /\ rk # None
                /\ rk[1] \in 1..100
                /\ rk[1] = IF n = 1 THEN 1 ELSE ((99 * i) \div (n - 1)) + 1

\* C17: the ranks assigned to the n records of a local day are n distinct
\* values.
C17_RanksDistinctPerDay ==
    (seen.op = "update" /\ seen.outcome = "ok") =>
        \A k \in 1..Len(seen.produced) :
            Cardinality({seen.produced[j].rank :
                            j \in {j \in 1..Len(seen.produced) :
                                      DateOf(seen.produced[j].start)
                                      = DateOf(seen.produced[k].start)}})
            = SizeOfDay(seen.produced, k)

\* the engine has looked for the current record and nothing was raised
LookupDone == seen.op \in {"update", "refresh"} /\ seen.outcome = "ok"

\* C18: after a lookup that found no record whose interval contains now (no
\* records at all, records of later slots only, a payload without a raw
\* curve, or now in the last microsecond of a slot) the visible state is level
\* Unknown, cost, credit, spot price and state 0 and rank 0, and the
\* operation has not raised.
C18_UnknownWhenNoCurrentRate ==
    (LookupDone /\ \A r \in RecordsOf(rates) : ~IsCurrent(r, now_local)) =>
        /\ level = "Unknown"
        /\ cost = 0 /\ credit = 0 /\ spot_price = 0 /\ state = 0
        /\ rank = Some(0)

\* a batch of records of later slots only has been looked up
C18_Witness ==
    /\ LookupDone /\ seen.op = "update"
    /\ rates # << >>
    /\ \A r \in RecordsOf(rates) : DtLess(now_local, r.start)
    /\ level = "Unknown" /\ rank = Some(0)

\* C19: a lookup leaves in self._rates exactly the records whose start date
\* is not before the local date of now, as they were and in the order they
\* had, and a state other than Unknown is that of a record left whose
\* interval contains now (start <= now < end).
C19_PurgeKeepsTheRest ==
    [][(seen'.op \in {"update", "refresh"} /\ seen'.outcome = "ok") =>
          LET before == IF seen'.op = "update"
                        THEN SortedByStart(seen'.produced) ELSE rates
              kept == {i \in 1..Len(before) :
                          DateOf(before[i].start) >= DateOf(now_local')}
              Nth(k) == CHOOSE i \in kept : Cardinality({j \in kept : j < i}) = k - 1
          IN  /\ Len(rates') = Cardinality(kept)
              /\ \A k \in 1..Len(rates') : rates'[k] = before[Nth(k)]
              /\ level' # "Unknown" =>
                    \E r \in RecordsOf(rates') :
                        /\ DtLeq(r.start, now_local') /\ DtLess(now_local', r.end)
                        /\ level' = r.level /\ cost' = r.cost
                        /\ credit' = r.credit /\ spot_price' = r.spot_price
                        /\ rank' = r.rank]_vars

\* a batch with a record of yesterday and the record of the current slot has
\* been looked up: the first is gone, the second is the current one
C19_Witness ==
    /\ LookupDone /\ seen.op = "update"
    /\ Len(seen.produced) = 2 /\ Len(rates) = 1
    /\ IsCurrent(rates[1], now_local)
    /\ level = rates[1].level /\ cost = rates[1].cost

\* C20: after an async_update_data whose curve could not be transformed the
\* level is Error Processing Data and cost, credit, spot price, rank and
\* state are all zero.
C20_ErrorStateAllZero ==
    (seen.op = "update" /\ seen.outcome = "error") =>
        /\ level = "Error Processing Data"
        /\ cost = 0 /\ credit = 0 /\ spot_price = 0 /\ state = 0
        /\ rank = Some(0)

\* C21: a sensor without a high threshold never classifies a cost High, one
\* without a low threshold never classifies a cost Low, and one without
\* either classifies every cost Medium.
C21_AbsentThresholdNeverClassifies ==
    seen.op = "calculate_level" =>
        /\ seen.outcome \in {"Low", "Medium", "High"}
        /\ high_threshold = DefaultHighThreshold => seen.outcome # "High"
        /\ low_threshold = DefaultLowThreshold => seen.outcome # "Low"
        /\ (low_threshold = DefaultLowThreshold
            /\ high_threshold = DefaultHighThreshold) => seen.outcome = "Medium"

----------------------------------------------------------------------------
(* Claims about the pattern of the clock *)

\* the rate list the pattern was made from
PatternSource == pattern_rates[1]

\* the start of the k-th step of the grid, k from 1
GridStep(k) == SlotAfter(PatternSource[1].start, 12 * (k - 1))

\* the character the mean of the weights (Low 1, Medium 2, High 3) of the
\* records idx of rs gives: U for no record, H for a mean above 2, M for a
\* mean above 1 and L otherwise
CharOfMean(rs, idx) ==
    LET n == Cardinality({i \in idx : rs[i].level \in {"Low", "Medium", "High"}})
        w == Cardinality({i \in idx : rs[i].level = "Low"})
             + 2 * Cardinality({i \in idx : rs[i].level = "Medium"})
             + 3 * Cardinality({i \in idx : rs[i].level = "High"})
    IN  IF n = 0 THEN "U"
        ELSE IF w > 2 * n THEN "H" ELSE IF w > n THEN "M" ELSE "L"

\* C22: the pattern has exactly 180 characters, each of L, M, H, U; it is
\* 180 U for no rates, and a step that no record of a known level overlaps
\* has U.
C22_PatternLength ==
    pattern_rates # None =>
        /\ Len(level_clock_pattern) = 180
        /\ \A k \in 1..Len(level_clock_pattern) :
              level_clock_pattern[k] \in {"L", "M", "H", "U"}
        /\ PatternSource = << >> =>
              \A k \in 1..180 : level_clock_pattern[k] = "U"
        /\ PatternSource # << >> =>
              \A k \in 1..180 :
                  (\A i \in 1..Len(PatternSource) :
                      \/ PatternSource[i].level \notin {"Low", "Medium", "High"}
                      \/ DtLeq(PatternSource[i].end, GridStep(k))
                      \/ DtLeq(GridStep(k + 1), PatternSource[i].start))
                  => level_clock_pattern[k] = "U"

\* a pattern of 180 characters with known levels at its start and U after
\* them has been made from a list that covers only part of the 36 hours
C22_Witness ==
    /\ pattern_rates # None /\ PatternSource # << >>
    /\ Len(level_clock_pattern) = 180
    /\ level_clock_pattern[1] = "L" /\ level_clock_pattern[180] = "U"

\* C23: at a step that every record of a known level either contains or
\* does not touch, the character is that of the mean of the weights of the
\* records that contain it (U if there is none); the three overlapping
\* six-hour windows Low, Medium, High give 10 L, 10 M, 10 M (mean exactly
\* 2), 10 H, 10 H and 130 U.
C23_CharByMeanOfWeights ==
    (pattern_rates # None /\ PatternSource # << >>) =>
        LET rs == PatternSource
            Known == {i \in 1..Len(rs) : rs[i].level \in {"Low", "Medium", "High"}}
            Contains(i, k) == /\ DtLeq(rs[i].start, GridStep(k))
                              /\ DtLeq(GridStep(k + 1), rs[i].end)
            Apart(i, k) == \/ DtLeq(rs[i].end, GridStep(k))
                           \/ DtLeq(GridStep(k + 1), rs[i].start)
        IN  /\ \A k \in 1..Len(level_clock_pattern) :
                  (\A i \in Known : Contains(i, k) \/ Apart(i, k)) =>
                      level_clock_pattern[k]
                      = CharOfMean(rs, {i \in Known : Contains(i, k)})
            /\ (/\ Len(rs) = 3
                /\ rs[1] = [start |-> After10h(0, 0), end |-> After10h(6, 0),
                            level |-> "Low"]
                /\ rs[2] = [start |-> After10h(2, 0), end |-> After10h(8, 0),
                            level |-> "Medium"]
                /\ rs[3] = [start |-> After10h(4, 0), end |-> After10h(10, 0),
                            level |-> "High"])
                => level_clock_pattern
                   = [k \in 1..180 |->
                         IF k <= 10 THEN "L" ELSE IF k <= 30 THEN "M"
                         ELSE IF k <= 50 THEN "H" ELSE "U"]

\* a step covered by a Low, a Medium and a High record (mean exactly 2) has
\* been given M, a step covered by Medium and High has been given H
C23_Witness ==
    /\ pattern_rates # None /\ Len(PatternSource) = 3
    /\ {PatternSource[i].level : i \in 1..3} = {"Low", "Medium", "High"}
    /\ PatternSource[1].level = "Low"
    /\ level_clock_pattern[11] = "M" /\ level_clock_pattern[25] = "M"
    /\ level_clock_pattern[35] = "H"

\* C24 as stated: the character of every step is that of the mean of the
\* weights of the records of a known level with start <= s and
\* s + step <= end.
C24_ContributesIffEndAtOrAfterStepEnd ==
    (pattern_rates # None /\ PatternSource # << >>) =>
        LET rs == PatternSource
        IN  \A k \in 1..Len(level_clock_pattern) :
                level_clock_pattern[k]
                = CharOfMean(rs, {i \in 1..Len(rs) :
                                    /\ rs[i].level \in {"Low", "Medium", "High"}
                                    /\ DtLeq(rs[i].start, GridStep(k))
                                    /\ DtLeq(GridStep(k + 1), rs[i].end)})

\* C24 amended: the character of every step is that of the mean of the
\* weights of the records of a known level that hold every microsecond of
\* the step: start <= s and s + step - 1 microsecond <= end. A record of
\* another level, or one that holds only part of the step, changes nothing.
C24_ContributesIffHoldsWholeStep ==
    (pattern_rates # None /\ PatternSource # << >>) =>
        LET rs == PatternSource
        IN  \A k \in 1..Len(level_clock_pattern) :
                level_clock_pattern[k]
                = CharOfMean(rs, {i \in 1..Len(rs) :
                                    /\ rs[i].level \in {"Low", "Medium", "High"}
                                    /\ DtLeq(rs[i].start, GridStep(k))
                                    /\ DtLeq(MinusOneMicrosecond(GridStep(k + 1)),
                                             rs[i].end)})

\* a record that ends one microsecond before the hour has contributed to the
\* last step of the hour and one that ends two microseconds before it has
\* not
C24_Witness ==
    /\ pattern_rates # None /\ Len(PatternSource) = 2
    /\ PatternSource[1].end = MinusOneMicrosecond(After10h(11, 0))
    /\ PatternSource[2].end
       = MinusOneMicrosecond(MinusOneMicrosecond(After10h(12, 0)))
    /\ level_clock_pattern[5] = "M"
    /\ level_clock_pattern[9] = "L" /\ level_clock_pattern[10] = "U"

----------------------------------------------------------------------------
(* Claims about the compact value *)

\* the initial of a level of the engine
InitialOf(lv) ==
    CASE lv = "Low" -> "L" [] lv = "Medium" -> "M" [] lv = "High" -> "H"
      [] OTHER -> "U"

\* the compact value has been fetched from the records of the engine
CompactFetched == seen.op = "update" /\ service_compact # None

\* the character calculate_levels gave for the step of the records of the
\* engine that holds the instant t, U if there is none
CharAt(t) ==
    LET hits == {i \in 1..Len(rates) : IsCurrent(rates[i], t)}
    IN  IF hits = {} \/ calculated_levels = None THEN "U"
        ELSE calculated_levels[1].levels[CHOOSE i \in hits : TRUE]

\* C25: the steps of calculate_levels being the slots of the engine, the
\* character of every slot is the initial of the level calculate_level gave
\* to the cost of the slot.
C25_SameClassificationAsEngine ==
    CompactFetched =>
        /\ calculated_levels[1].level_length = 60
        /\ Len(calculated_levels[1].levels) = Len(rates)
        /\ \A j \in 1..Len(rates) :
              calculated_levels[1].levels[j] = InitialOf(rates[j].level)

\* C26: the upcoming window of the compact value starts with the level of
\* the step that holds now, and the passed window has the levels of the
\* steps of the 60 minutes before that step.
C26_WindowsRelativeToNow ==
    CompactFetched =>
        LET c == service_compact[1]
            step == c.level_length
            step_start == Dt(now_local.min - (now_local.min % step), 0)
        IN  /\ step = 60
            /\ Len(c.future) = 12 /\ Len(c.passed) = 1
            /\ c.future[1] = CharAt(now_local)
            /\ \A k \in 1..Len(c.passed) :
                  c.passed[k] = CharAt(SlotAfter(step_start, step * (k - 1) - 60))


----------------------------------------------------------------------------
(* Claims about the delay a tick arms, what it stores and what it delivers *)

\* the times of day read by the ticks that end in this step: the tick that
\* found nothing to fetch read the clock in this step, a tick that called the
\* provider is the one that leaves the ticks in flight
EndedTickTods ==
    IF last'.op = "IDLE"
    THEN {hass_now'.tod}
    ELSE {tk.tod : tk \in {t \in BagToSet(inflight) :
                              CopiesIn(t, inflight') < CopiesIn(t, inflight)}}

\* the delays of the wake-up the step leaves armed
ArmedDelays == {w.delay : w \in {x \in pending' : task_remover' = Some(x.id)}}

\* today's and tomorrow's entry of the cache after the cycle are valid
TodayValidAfter ==
    Truthy(data_for_current_hass_date') /\ date_of_current_data' = Some(last'.day)

TomorrowValidAfter ==
    Truthy(data_for_next_hass_date') /\ date_of_next_data' = Some(last'.day + 1)

\* the delay by the rules of the cache and the clock, with wait the delay for
\* the time that remains until 13:00
DelayByRules(tod, wait) ==
    IF ~TodayValidAfter
    THEN RetryTodayDelay
    ELSE IF ~TomorrowValidAfter
         THEN IF tod < Cutoff13h00
              THEN wait
              ELSE IF last'.op = "TODAY" /\ last'.ok
                   THEN ImmediateDelay
                   ELSE RetryTomorrowDelay
         ELSE (DayLength + Cutoff13h00) - tod

C28_PositiveDelay == \A w \in pending : w.delay > 0

\* a tick that read the clock at exactly 13:00 has ended and armed the
\* smallest delay, 0.1 s
C28_Witness ==
    /\ TickEnded /\ is_running /\ hass_now.tod = Cutoff13h00
    /\ ~last.stopped /\ last.op = "TODAY" /\ last.ok
    /\ pending # {}
    /\ \A w \in pending : w.delay = ImmediateDelay

\* C29: the step in which a provider call ends with SUCCESS_DATA writes the
\* fetched curve and the target date into the slot of the tick's operation,
\* the current slot and the tick's date for TODAY, the next slot and the day
\* after for TOMORROW, and leaves the data and the date of the other slot as
\* they were.
C29_StoresInSlotOfOperation ==
    [][(last'.ev \in {"end", "raise"} /\ last'.ok)
       => IF last'.op = "TODAY"
          THEN /\ date_of_current_data' = Some(last'.day)
               /\ \E curve \in Curves(last'.day) :
                     data_for_current_hass_date' = Some(curve)
               /\ UNCHANGED <<data_for_next_hass_date, date_of_next_data>>
          ELSE /\ last'.op = "TOMORROW"
               /\ date_of_next_data' = Some(last'.day + 1)
               /\ \E curve \in Curves(last'.day + 1) :
                     data_for_next_hass_date' = Some(curve)
               /\ UNCHANGED <<data_for_current_hass_date,
                              date_of_current_data>>]_vars

\* a TOMORROW call has ended with SUCCESS_DATA: the next slot holds the curve
\* of the day after the tick's date, the current slot still today's curve
C29_Witness ==
    /\ TickEnded /\ last.op = "TOMORROW" /\ last.ok
    /\ data_for_next_hass_date = Some(<<last.day + 1>>)
    /\ date_of_next_data = Some(last.day + 1)
    /\ data_for_current_hass_date = Some(<<last.day>>)
    /\ date_of_current_data = Some(last.day)

\* the entries of a slot that go into a payload built for the date day
EntriesFor(data, date, day) ==
    IF data # None /\ date = Some(day) THEN data[1] ELSE << >>

\* C30: the payload a tick hands to the consumer holds the entries of the
\* current slot if and only if that slot is dated the tick's date and the
\* entries of the next slot if and only if that slot is dated the day after,
\* the current day's entries before the next day's, together with the
\* currency of the coordinator; no entry of another day is delivered.
C30_PayloadOfValidSlots ==
    [][(last'.ev \in {"end", "raise"} /\ last'.sent # None)
       => LET sent == last'.sent[1]
          IN  /\ sent.currency = currency'
              /\ sent.raw =
                    EntriesFor(data_for_current_hass_date',
                               date_of_current_data', last'.day)
                    \o EntriesFor(data_for_next_hass_date',
                                  date_of_next_data', last'.day + 1)
              /\ \A i \in 1..Len(sent.raw) :
                    sent.raw[i] \in {last'.day, last'.day + 1}
              /\ \A i, j \in 1..Len(sent.raw) :
                    i < j => sent.raw[i] <= sent.raw[j]]_vars

\* a tick has delivered the entries of one slot while the other slot holds a
\* curve of another day than the one the payload is built for
C30_Witness ==
    /\ TickEndedOrRaised /\ last.sent # None
    /\ Len(last.sent[1].raw) = 1
    /\ \/ /\ Truthy(data_for_next_hass_date)
          /\ date_of_next_data # Some(last.day + 1)
       \/ /\ Truthy(data_for_current_hass_date)
          /\ date_of_current_data # Some(last.day)

----------------------------------------------------------------------------
(* Claims about _execute_nordpool_call_logic *)

ProviderCalled == last.ev = "call"

\* C31: every outcome of the service call is mapped to one status and none
\* raises: a dictionary with exactly one area key that holds a list gives
\* SUCCESS_DATA with the list and the currency, absent when the currency
\* entity is missing, unknown or unavailable; a dictionary with more keys or
\* with one key that holds no list gives ERROR_BAD_RESPONSE_STRUCTURE; an
\* empty response or one that is no dictionary gives SUCCESS_NO_DATA; a
\* validation error that says the entry is not loaded or did not set up gives
\* ERROR_SERVICE_NOT_READY; any other exception gives ERROR_OTHER.
C31_OneStatusPerOutcome ==
    ProviderCalled =>
        LET o == last.outcome
            status == last.returned.status
            payload == last.returned.payload
        IN  /\ status \in HandledStatuses
            /\ (status = "SUCCESS_DATA") <=> (payload # None)
            /\ (o.type = "dict" /\ o.keys = 1 /\ o.value_is_list) =>
                  /\ status = "SUCCESS_DATA"
                  /\ payload[1].raw = o.raw
                  /\ payload[1].currency =
                        IF o.cur \in {"absent", "unknown", "unavailable"}
                        THEN None ELSE Some(o.cur)
            /\ (o.type = "dict" /\ (o.keys > 1 \/ (o.keys = 1 /\ ~o.value_is_list)))
                  => status = "ERROR_BAD_RESPONSE_STRUCTURE"
            /\ (o.type \in {"None", "not_dict"} \/ (o.type = "dict" /\ o.keys = 0))
                  => status = "SUCCESS_NO_DATA"
            /\ (o.type = "raise" /\ o.exc = "ServiceValidationError"
                /\ o.text \in {"entry_not_loaded", "not loaded", "did not set up"})
                  => status = "ERROR_SERVICE_NOT_READY"
            /\ (o.type = "raise" /\ ~(o.exc = "ServiceValidationError"
                                      /\ o.text # "other"))
                  => status = "ERROR_OTHER"

\* a validation error that says something else has been mapped to ERROR_OTHER
C31_Witness ==
    /\ ProviderCalled
    /\ last.outcome.type = "raise"
    /\ last.outcome.exc = "ServiceValidationError"
    /\ last.outcome.text = "other"
    /\ last.returned.status = "ERROR_OTHER"

----------------------------------------------------------------------------
(* Claims about the batches of the engine *)

BatchProcessed == seen.op = "update" /\ seen.outcome = "ok"

\* the records of local day d among the records recs, in their order
DayRecords(recs, d) ==
    LET OfDay(r) == DateOf(r.start) = d
    IN  SelectSeq(recs, OfDay)

\* what a record has of its raw entry
EntriesOf(recs) ==
    [i \in 1..Len(recs) |->
        [start |-> recs[i].start, end |-> recs[i].end,
         spot_price |-> recs[i].spot_price]]

RanksOf(recs) == [i \in 1..Len(recs) |-> recs[i].rank]

\* the local days the batches have entries of
BatchDays == 0..2

\* C32: two batches async_update_data processes one after the other that hold
\* the same entries for a local day give the records of that day the same
\* ranks, whatever entries of other days the batches hold.
C32_RanksOfDayIgnoreOtherDays ==
    [][(BatchProcessed /\ BatchProcessed')
       => \A d \in BatchDays :
             LET before == DayRecords(seen.produced, d)
                 after == DayRecords(seen'.produced, d)
             IN  EntriesOf(before) = EntriesOf(after)
                    => RanksOf(before) = RanksOf(after)]_vars

\* a batch with entries of two days has been processed: a record is the
\* cheapest of its day, rank 1, while a record of the other day is cheaper
C32_Witness ==
    /\ BatchProcessed
    /\ \E i, j \in 1..Len(seen.produced) :
          /\ DateOf(seen.produced[i].start) # DateOf(seen.produced[j].start)
          /\ seen.produced[j].spot_price < seen.produced[i].spot_price
          /\ seen.produced[i].rank = Some(1)

----------------------------------------------------------------------------
(* Claims about the windows of the compact value *)

WindowsFetched == seen.op = "fetch_compact"

\* the sequence of n characters 'U'
Unknowns(n) == [j \in 1..n |-> "U"]

\* seq is some part of whole, in place
IsPartOf(seq, whole) ==
    \E a \in 0..Len(whole) :
        /\ a + Len(seq) <= Len(whole)
        /\ seq = SubSeq(whole, a + 1, a + Len(seq))

\* C33: when there is level data with a step length L that divides 60, the
\* passed window has 60/L characters and the upcoming window 720/L, at every
\* time of day and for every length of the level string, the characters that
\* are missing being 'U' on the left of the passed window and on the right of
\* the upcoming one; without level data both windows are empty, the step
\* length is 0 and the next update is in 5 s.
C33_WindowLengths ==
    WindowsFetched =>
        LET c == service_compact[1]
            levels == calculated_levels[1].levels
            L == calculated_levels[1].level_length
        IN  IF Len(levels) > 0
            THEN /\ L \in StepLengths /\ c.level_length = L
                 /\ Len(c.passed) = 60 \div L
                 /\ Len(c.future) = 720 \div L
                 /\ \E k \in 0..Len(c.passed) :
                       /\ SubSeq(c.passed, 1, k) = Unknowns(k)
                       /\ IsPartOf(SubSeq(c.passed, k + 1, Len(c.passed)), levels)
                 /\ \E k \in 0..Len(c.future) :
                       /\ SubSeq(c.future, Len(c.future) - k + 1, Len(c.future))
                             = Unknowns(k)
                       /\ IsPartOf(SubSeq(c.future, 1, Len(c.future) - k), levels)
            ELSE /\ c.passed = << >> /\ c.future = << >>
                 /\ c.level_length = 0
                 /\ seen.outcome = 5

\* at 01:10 the level string of quarter-hour steps ends within the last hour:
\* the passed window has levels and is filled up with 'U'
C33_Witness ==
    /\ WindowsFetched
    /\ calculated_levels[1].level_length = 15
    /\ service_seconds = Some(70)
    /\ Len(service_compact[1].passed) = 4
    /\ service_compact[1].passed[1] = "U"
    /\ service_compact[1].passed[4] # "U"

----------------------------------------------------------------------------
(* Claims about calculate_levels *)

LevelsCalculated == seen.op = "calculate_levels"

\* the length of the result the claim describes, with Padded(steps, two_days)
\* the length of a padded string of steps characters
C34_Statement(Padded(_, _)) ==
    LevelsCalculated =>
        LET result == calculated_levels[1]
            requested_length == seen.produced[1]
            fill_unknown == seen.produced[2]
            st == seen.produced[3]
        IN  IF seen.outcome = "error" \/ st.rates = << >> \/ st.low_threshold = None
            THEN result.levels = << >> /\ result.level_length = 0
            ELSE LET L == IF requested_length = 0
                          THEN CeilMinutes(st.rates[1].start, st.rates[1].end)
                          ELSE requested_length
                     minutes == CeilMinutes(st.rates[1].start,
                                            st.rates[Len(st.rates)].end)
                     steps == (minutes + L - 1) \div L
                     two_days == (2 * 24 * 60) \div L
                     length == IF fill_unknown THEN Padded(steps, two_days)
                               ELSE steps
                 IN  /\ result.level_length = L
                     /\ Len(result.levels) = length
                     /\ \A j \in 1..length :
                           result.levels[j] = "U" <=> j > steps

\* C34 as stated: calculate_levels gives one character per step of
\* level_length minutes of rate data; with fill_unknown and a result that is
\* not empty the string is padded with 'U' to exactly two days of steps, and
\* without fill_unknown nothing is added; when processing raises, the result
\* is the empty string with level_length 0.
C34_PaddedToTwoDays ==
    LET Padded(steps, two_days) == two_days
    IN  C34_Statement(Padded)

\* C34 amended: as above, but only a string of fewer than two days of steps
\* is padded; a longer one is returned as it is.
C34_PaddedUpToTwoDays ==
    LET Padded(steps, two_days) == Max(steps, two_days)
    IN  C34_Statement(Padded)

\* the levels of a curve of two days and an hour have been calculated with
\* fill_unknown: the string is longer than two days of steps
C34_Witness ==
    /\ LevelsCalculated /\ seen.outcome = "ok"
    /\ seen.produced[2]
    /\ calculated_levels[1].level_length = 60
    /\ Len(calculated_levels[1].levels) > 48

----------------------------------------------------------------------------
(* Claims about the start of the level sensors *)

\* the step is an event with a valid state: async_added_to_hass that finds
\* one, or a listener called with one
ValidStateEvent ==
    \/ listeners' > listeners /\ IsValidState(price_state)
    \/ \E st \in BagToSet(handler_calls) :
          /\ CopiesIn(st, handler_calls') < CopiesIn(st, handler_calls)
          /\ IsValidState(st)

\* C35: the periodic update task is created at most once, whatever the order
\* and the number of async_added_to_hass calls and state-change events: the
\* first event with a valid state creates it, later events and events with
\* an unavailable, unknown or missing state create nothing.
C35_TaskCreatedOnce ==
    [][/\ tasks_created' <= 1
       /\ tasks_created' =
             IF ValidStateEvent /\ tasks_created = 0
             THEN 1 ELSE tasks_created]_vars

\* the task exists and a later event with a valid state has been handled
\* without creating another
C35_Witness ==
    /\ tasks_created = 1 /\ ~waiting_for_first_value
    /\ listeners = MaxListeners
    /\ price_state = "valid"
    /\ handler_calls = EmptyBag
    /\ service_compact # None

----------------------------------------------------------------------------
(* Claims about the cache across stop() and start() *)

\* C36: a tick whose provider call was in flight across a stop() followed by
\* a start() does not write its fetch result into the cache and the currency
\* that start() has reset.
C36_StaleTickWritesNothing ==
    [][(last'.ev \in {"end", "raise"} /\ last'.stopped /\ is_running)
       => UNCHANGED <<cacheVars, currency>>]_vars

\* C37: when the coordinator is started and never stopped and the local date
\* never decreases, in every state a next slot that has a date goes with a
\* current slot dated exactly one day earlier, and after each tick the date
\* of the current slot is not later than the local date of that tick.
C37_SlotsOneDayApart ==
    /\ date_of_next_data # None =>
          /\ date_of_current_data # None
          /\ date_of_next_data[1] = date_of_current_data[1] + 1
    /\ TickEndedOrRaised =>
          \/ date_of_current_data = None
          \/ date_of_current_data[1] <= last.day

\* a tick of the day after the start has rolled the cache over and fetched
\* the curve of the day after: both slots are dated, one day apart
C37_Witness ==
    /\ TickEnded /\ last.op = "TOMORROW" /\ last.ok /\ last.day > 0
    /\ date_of_current_data = Some(last.day)
    /\ date_of_next_data = Some(last.day + 1)

----------------------------------------------------------------------------
(* Claims about the scheduler once the provider answers *)

\* a step of a favourable day: the local date stays, and a tick that ends
\* after a provider call got SUCCESS_DATA and stored a non-empty curve
FavourableStep ==
    /\ hass_now'.day = hass_now.day
    /\ (last'.ev \in {"end", "raise"} /\ last'.op # "IDLE") =>
          /\ last'.ok
          /\ last'.op = "TODAY" => Truthy(data_for_current_hass_date')
          /\ last'.op = "TOMORROW" => Truthy(data_for_next_hass_date')

\* today and today+1 are valid and no provider call is under way
BothOkAndQuiet ==
    /\ TodaysDataIsNowOk(Cache, hass_now.day)
    /\ TomorrowsDataIsNowOk(Cache, hass_now.day)
    /\ inflight = EmptyBag

\* C38: if the coordinator is started and from some point on every provider
\* call returns SUCCESS_DATA with a non-empty curve and the local date does
\* not change, then, the host firing every wake-up, the cache comes to hold
\* valid entries for today and today+1 and from then on stays so with no
\* further provider call.
C38_SettlesOnBothOk ==
    (<>is_running /\ <>[][FavourableStep]_vars) => <>[]BothOkAndQuiet

\* the same of the behaviours in which no call of the consumer raises
C38_SettlesOnBothOkWhenConsumerReturns ==
    ([](last.ev # "raise") /\ <>is_running /\ <>[][FavourableStep]_vars)
    => <>[]BothOkAndQuiet

----------------------------------------------------------------------------
(* Claims about the order of the ranks and about the list of rate records *)

\* the pairs of records of one local day of rs with numeric ranks of which
\* the first has the strictly lower spot price
CheaperPairs(rs) ==
    {p \in (1..Len(rs)) \X (1..Len(rs)) :
        /\ DateOf(rs[p[1]].start) = DateOf(rs[p[2]].start)
        /\ rs[p[1]].rank # None /\ rs[p[2]].rank # None
        /\ rs[p[1]].spot_price < rs[p[2]].spot_price}

\* C39: within one local day of a batch processed by async_update_data, of
\* two records with numeric ranks the one with the strictly lower spot price
\* has a rank less than or equal to the other's, and a strictly smaller rank
\* when the day has at most 100 entries.
C39_RankMonotoneInPrice ==
    (seen.op = "update" /\ seen.outcome = "ok") =>
        \A p \in CheaperPairs(seen.produced) :
            LET rj == seen.produced[p[1]].rank[1]
                rk == seen.produced[p[2]].rank[1]
            IN  /\ rj <= rk
                /\ rj >= rk => SizeOfDay(seen.produced, p[1]) > 100

\* the part of C39 that does not depend on the number of entries
C39_RankNeverDecreasesWithPrice ==
    (seen.op = "update" /\ seen.outcome = "ok") =>
        \A p \in CheaperPairs(seen.produced) :
            seen.produced[p[1]].rank[1] <= seen.produced[p[2]].rank[1]

\* rs holds one record for each entry of es, and nothing else
OneRecordPerEntry(rs, es) ==
    /\ Len(rs) = Len(es)
    /\ \A i \in 1..Len(es) :
          Cardinality({k \in 1..Len(rs) :
                          /\ rs[k].start = es[i].start
                          /\ rs[k].end = MinusOneMicrosecond(es[i].end)
                          /\ rs[k].spot_price = PriceKwh(es[i].price)})
          = Cardinality({j \in 1..Len(es) :
                          /\ es[j].start = es[i].start
                          /\ es[j].end = es[i].end
                          /\ es[j].price = es[i].price})

AscendingByStart(rs) ==
    \A i \in 1..(Len(rs) - 1) : DtLeq(rs[i].start, rs[i + 1].start)

\* the entries of a batch that have a price and do not start before the
\* local date of now
PricedFromToday(raw, now) ==
    LET Kept(e) == e.shape = "ok" /\ DateOf(e.start) >= DateOf(now)
    IN  SelectSeq(raw, Kept)

EveryEntry(raw, now) == raw

\* a step: the rate list after a batch holds one record per entry of Entries, in
\* ascending order of start, and is empty after a batch that failed to parse
C40_Statement(Entries(_, _)) ==
    \A slot \in {data_for_current_hass_date, data_for_next_hass_date} :
        (\E now \in SensorNows : ReplaceWith(slot, now)) =>
            /\ seen'.outcome = "ok" =>
                  /\ OneRecordPerEntry(rates', Entries(slot[1], now_local'))
                  /\ AscendingByStart(rates')
            /\ seen'.outcome = "error" => rates' = << >>

\* C40 as stated: after a successful batch the rate list holds exactly one
\* record per raw entry of that batch and none of an earlier batch, sorted
\* ascending by start, and after a batch that fails to parse it is empty.
C40_OneRecordPerRawEntry == [][C40_Statement(EveryEntry)]_vars

\* C40: after a successful batch the rate list holds exactly one record per
\* entry of that batch that has a price and does not start before today's
\* local date, and none of an earlier batch, sorted ascending by start; after
\* a batch that fails to parse it is empty.
C40_OneRecordPerPricedEntryFromToday == [][C40_Statement(PricedFromToday)]_vars

\* a batch of two entries given latest first is held earliest first, and
\* the list holds nothing of the other curve
C40_Witness ==
    /\ seen.op = "update" /\ seen.outcome = "ok"
    /\ Len(seen.produced) = 2 /\ Len(rates) = 2
    /\ DtLess(seen.produced[2].start, seen.produced[1].start)
    /\ rates = <<seen.produced[2], seen.produced[1]>>
    /\ \A r \in RecordsOf(rates) :
          \A i \in 1..Len(OtherCurve) :
              r.start # OtherCurve[i].start
              \/ r.spot_price # PriceKwh(OtherCurve[i].price)

====
